---- MODULE Spec2Model ----
(***************************************************************************)
(* Schema interchange engine of Ez-ERD: DDLGenerator (graph -> SQL text),  *)
(* DDLParser (SQL text -> graph) and YAMLParser (manifest -> graph).       *)
(*                                                                         *)
(* Text is a TLA+ string; a character is a string of length 1.  Positions  *)
(* are 1-based; a match records the position just after it.  Every         *)
(* regular expression of the source is written out item by item and        *)
(* matched by one matcher that follows the backtracking order of the       *)
(* JavaScript engine (leftmost start, greedy quantifiers, alternatives in  *)
(* order).  uuidv4() is a fresh number drawn from a counter; the random    *)
(* layout position of a node is not modelled.  An absent optional string   *)
(* field (undefined) is "", which is as falsy as undefined in the code.    *)
(***************************************************************************)
EXTENDS Integers, Sequences, FiniteSets, TLC

\* ---------------------------------------------------------------- characters

Ch(s, i) == IF i >= 1 /\ i <= Len(s) THEN SubSeq(s, i, i) ELSE ""

From(s, i) == SubSeq(s, i, Len(s))

LowerChars == {"a","b","c","d","e","f","g","h","i","j","k","l","m",
               "n","o","p","q","r","s","t","u","v","w","x","y","z"}

UpperChars == {"A","B","C","D","E","F","G","H","I","J","K","L","M",
               "N","O","P","Q","R","S","T","U","V","W","X","Y","Z"}

DigitChars == {"0","1","2","3","4","5","6","7","8","9"}

\* [a-zA-Z0-9_], also \w
WordChars == LowerChars \cup UpperChars \cup DigitChars \cup {"_"}

\* \s
SpaceChars == {" ", "\n", "\t", "\r", "\f"}

\* the line terminators that . does not match and that end a -- comment
LineEnds == {"\n", "\r"}

UpperMap ==
  "a" :> "A" @@ "b" :> "B" @@ "c" :> "C" @@ "d" :> "D" @@ "e" :> "E" @@
  "f" :> "F" @@ "g" :> "G" @@ "h" :> "H" @@ "i" :> "I" @@ "j" :> "J" @@
  "k" :> "K" @@ "l" :> "L" @@ "m" :> "M" @@ "n" :> "N" @@ "o" :> "O" @@
  "p" :> "P" @@ "q" :> "Q" @@ "r" :> "R" @@ "s" :> "S" @@ "t" :> "T" @@
  "u" :> "U" @@ "v" :> "V" @@ "w" :> "W" @@ "x" :> "X" @@ "y" :> "Y" @@
  "z" :> "Z"

UpperCh(c) == IF c \in LowerChars THEN UpperMap[c] ELSE c

\* the characters of s mapped one by one (halving keeps the evaluation shallow)
RECURSIVE ToUpperCase(_)
ToUpperCase(s) ==
  IF Len(s) <= 1 THEN UpperCh(s)
  ELSE ToUpperCase(SubSeq(s, 1, Len(s) \div 2))
         \o ToUpperCase(SubSeq(s, Len(s) \div 2 + 1, Len(s)))

LowerCh(c) ==
  IF c \in UpperChars THEN CHOOSE l \in LowerChars : UpperMap[l] = c ELSE c

RECURSIVE ToLowerCase(_)
ToLowerCase(s) ==
  IF Len(s) <= 1 THEN LowerCh(s)
  ELSE ToLowerCase(SubSeq(s, 1, Len(s) \div 2))
         \o ToLowerCase(SubSeq(s, Len(s) \div 2 + 1, Len(s)))

\* String.prototype.trim
RECURSIVE TrimStart(_)
TrimStart(s) ==
  IF s # "" /\ Head(s) \in SpaceChars THEN TrimStart(Tail(s)) ELSE s

RECURSIVE TrimEnd(_)
TrimEnd(s) ==
  IF s # "" /\ Ch(s, Len(s)) \in SpaceChars
  THEN TrimEnd(SubSeq(s, 1, Len(s) - 1)) ELSE s

Trim(s) == TrimEnd(TrimStart(s))

\* the least member of a set of positions, 0 for the empty set
MinPos(S) == IF S = {} THEN 0 ELSE CHOOSE p \in S : \A q \in S : p <= q

\* the least position in lo..hi where Hit holds, 0 when there is none
FirstPos(lo, hi, Hit(_)) ==
  IF \E p \in lo..hi : Hit(p)
  THEN CHOOSE p \in lo..hi : Hit(p) /\ \A r \in lo..(p - 1) : ~Hit(r)
  ELSE 0

MaxPos(S) == IF S = {} THEN 0 ELSE CHOOSE p \in S : \A q \in S : p >= q

\* String.prototype.indexOf(t) as a 1-based position, 0 when absent
IndexOf(s, t) ==
  FirstPos(1, Len(s) - Len(t) + 1, LAMBDA p : SubSeq(s, p, p + Len(t) - 1) = t)

Includes(s, t) == IndexOf(s, t) > 0

\* String.prototype.split(sep) for a non-empty separator
RECURSIVE Split(_, _)
Split(s, sep) ==
  LET p == IndexOf(s, sep) IN
  IF p = 0 THEN <<s>>
  ELSE <<SubSeq(s, 1, p - 1)>> \o Split(From(s, p + Len(sep)), sep)

\* Array.prototype.join(sep)
RECURSIVE Join(_, _)
Join(parts, sep) ==
  IF parts = <<>> THEN ""
  ELSE IF Len(parts) = 1 THEN parts[1]
  ELSE parts[1] \o sep \o Join(Tail(parts), sep)

\* String.prototype.replace(/"/g, '')
RECURSIVE RemoveQuotes(_)
RemoveQuotes(s) ==
  IF Len(s) <= 1 THEN (IF s = "\"" THEN "" ELSE s)
  ELSE RemoveQuotes(SubSeq(s, 1, Len(s) \div 2))
         \o RemoveQuotes(SubSeq(s, Len(s) \div 2 + 1, Len(s)))

SeqMap(Op(_), xs) == [k \in 1..Len(xs) |-> Op(xs[k])]

SelectIdx(xs, Test(_)) ==
  LET RECURSIVE Go(_)
      Go(k) == IF k > Len(xs) THEN <<>>
               ELSE (IF Test(xs[k]) THEN <<xs[k]>> ELSE <<>>) \o Go(k + 1)
  IN Go(1)

\* ------------------------------------------------------- regular expressions

\* character classes used by the patterns of the source
InClass(c, cls) ==
  CASE cls = "s"    -> c \in SpaceChars
    [] cls = "w"    -> c \in WordChars
    [] cls = "^dq"  -> c # "\""
    [] cls = "^sq"  -> c # "'"
    [] cls = "^rp"  -> c # ")"
    [] cls = "^sc"  -> c # ";"
    [] cls = "^q"   -> c \notin {"'", "\""}
    [] cls = "q"    -> c \in {"'", "\""}
    [] cls = "d"    -> c \in DigitChars
    [] cls = "."    -> c \notin LineEnds

\* cls* taken greedily from p: the position after the longest run
SpanEnd(s, p, cls) ==
  FirstPos(p, Len(s) + 1, LAMBDA q : q > Len(s) \/ ~InClass(Ch(s, q), cls))

\* a literal at p; ci is the i flag
LitAt(s, p, lit, ci) ==
  /\ p + Len(lit) - 1 <= Len(s)
  /\ UpperCh(Ch(s, p)) = UpperCh(Ch(lit, 1))
  /\ IF ci THEN ToUpperCase(SubSeq(s, p, p + Len(lit) - 1)) = ToUpperCase(lit)
     ELSE SubSeq(s, p, p + Len(lit) - 1) = lit

\* A pattern is the sequence of its items:
\*   Lit(t)       the text t
\*   One(c)       one character of class c
\*   Rep(c, n)    n or more characters of class c, greedy (c* is Rep(c, 0),
\*                c+ is Rep(c, 1))
\*   Grp(n, r)    capturing group number n around the items r
\*   Alt(b)       the alternatives b, tried in order
\*   Opt(r)       (?:r)?
\*   Star(r)      (?:r)*
\*   Lazy(r)      (?:r)*?
Lit(t) == [t |-> "lit", s |-> t]

One(c) == [t |-> "one", c |-> c]

Rep(c, n) == [t |-> "rep", c |-> c, min |-> n]

Grp(n, r) == [t |-> "grp", n |-> n, r |-> r]

Alt(b) == [t |-> "alt", a |-> b]

Opt(r) == Alt(<<r, <<>>>>)

Star(r) == [t |-> "star", r |-> r]

Lazy(r) == [t |-> "lazy", r |-> r]

\* the end of group n, which started at position from
GroupEnd(n, from) == [t |-> "close", n |-> n, from |-> from]

\* the ends still to be tried for a greedy repetition, the longest first
Try(ends) == [t |-> "try", at |-> ends]

\* the later ends of a set of two or more (halving keeps the evaluation
\* shallow; the order in which the ends are tried stays longest first)
UpperHalf(ends) ==
  {x \in ends : 2 * x > MinPos(ends) + MaxPos(ends)}

NoGroups == [n \in {} |-> ""]

NoMatch == [ok |-> FALSE, end |-> 0, g |-> NoGroups]

\* r, or other when r is no match
FirstOk(r, other) == IF r.ok THEN r ELSE other

\* a necessary condition for items to match at p, read off their first item
RECURSIVE CanStart(_, _, _, _)
CanStart(s, p, items, ci) ==
  IF items = <<>> THEN TRUE
  ELSE CASE Head(items).t = "lit" -> LitAt(s, p, Head(items).s, ci)
         [] Head(items).t = "one" ->
              p <= Len(s) /\ InClass(Ch(s, p), Head(items).c)
         [] Head(items).t = "rep" ->
              Head(items).min = 0
                \/ (p <= Len(s) /\ InClass(Ch(s, p), Head(items).c))
         [] Head(items).t = "close" -> CanStart(s, p, Tail(items), ci)
         [] Head(items).t = "grp" ->
              CanStart(s, p, Head(items).r \o Tail(items), ci)
         [] OTHER -> TRUE

\* The match of items at position p that a backtracking matcher finds
\* first: end is the position after it, g the text of the groups that took
\* part.  A greedy item gives back one character at a time as long as the
\* items after it fail; alternatives are tried in order.
RECURSIVE Match(_, _, _, _, _)
Match(s, p, items, g, ci) ==
  IF items = <<>> THEN [ok |-> TRUE, end |-> p, g |-> g]
  ELSE CASE Head(items).t = "lit" ->
              IF LitAt(s, p, Head(items).s, ci)
              THEN Match(s, p + Len(Head(items).s), Tail(items), g, ci)
              ELSE NoMatch
         [] Head(items).t = "one" ->
              IF p <= Len(s) /\ InClass(Ch(s, p), Head(items).c)
              THEN Match(s, p + 1, Tail(items), g, ci) ELSE NoMatch
         [] Head(items).t = "rep" ->
              Match(s, p,
                    <<Try({x \in (p + Head(items).min)..SpanEnd(s, p, Head(items).c) :
                             CanStart(s, x, Tail(items), ci)})>> \o Tail(items),
                    g, ci)
         [] Head(items).t = "try" ->
              IF Head(items).at = {} THEN NoMatch
              ELSE IF MinPos(Head(items).at) = MaxPos(Head(items).at)
              THEN Match(s, MaxPos(Head(items).at), Tail(items), g, ci)
              ELSE FirstOk(Match(s, p,
                                 <<Try(UpperHalf(Head(items).at))>> \o Tail(items),
                                 g, ci),
                           Match(s, p,
                                 <<Try(Head(items).at \ UpperHalf(Head(items).at))>>
                                   \o Tail(items),
                                 g, ci))
         [] Head(items).t = "grp" ->
              Match(s, p,
                    Head(items).r \o <<GroupEnd(Head(items).n, p)>> \o Tail(items),
                    g, ci)
         [] Head(items).t = "close" ->
              Match(s, p, Tail(items),
                    (Head(items).n :> SubSeq(s, Head(items).from, p - 1)) @@ g, ci)
         [] Head(items).t = "alt" ->
              IF Head(items).a = <<>> THEN NoMatch
              ELSE FirstOk(Match(s, p, Head(Head(items).a) \o Tail(items), g, ci),
                           Match(s, p, <<Alt(Tail(Head(items).a))>> \o Tail(items),
                                 g, ci))
         [] Head(items).t = "star" ->
              FirstOk(Match(s, p, Head(items).r \o items, g, ci),
                      Match(s, p, Tail(items), g, ci))
         [] Head(items).t = "lazy" ->
              FirstOk(Match(s, p, Tail(items), g, ci),
                      Match(s, p, Head(items).r \o items, g, ci))

\* the match at position p, NoMatch for p = 0
MatchAt(s, p, items, ci) ==
  IF p = 0 THEN NoMatch ELSE Match(s, p, items, NoGroups, ci)

\* the least position from which items match, 0 when there is none
Search(s, from, items, ci) ==
  FirstPos(from, Len(s),
           LAMBDA p : CanStart(s, p, items, ci)
                        /\ Match(s, p, items, NoGroups, ci).ok)

\* String.prototype.match / RegExp.prototype.exec without the g flag
Exec(s, items, ci) == MatchAt(s, Search(s, 1, items, ci), items, ci)

\* RegExp.prototype.test
Test(s, items, ci) == Search(s, 1, items, ci) > 0

\* m[n], "" for a group that took no part (undefined, as falsy as "")
Group(m, n) == IF n \in DOMAIN m.g THEN m.g[n] ELSE ""

\* m[a] || m[b]
GroupOr(m, a, b) == IF Group(m, a) # "" THEN Group(m, a) ELSE Group(m, b)

\* every match of a pattern with the g flag, as the exec loop finds them
RECURSIVE ExecAll(_, _, _, _)
ExecFrom(s, items, ci, m) ==
  IF ~m.ok THEN <<>> ELSE <<m>> \o ExecAll(s, m.end, items, ci)

ExecAll(s, from, items, ci) ==
  ExecFrom(s, items, ci, MatchAt(s, Search(s, from, items, ci), items, ci))

\* group n of every match
Groups(ms, n) == [k \in 1..Len(ms) |-> Group(ms[k], n)]

\* ------------------------------------------------------------- DDLGenerator

HasNonWordChar(s) == \E k \in 1..Len(s) : Ch(s, k) \notin WordChars

reservedWords ==
  {"table", "select", "from", "where", "insert", "update", "delete",
   "create", "alter", "drop", "grant", "revoke", "order", "by", "group",
   "having", "join", "left", "right", "outer", "inner", "full", "on",
   "union", "all", "as", "distinct", "limit", "offset", "with", "database",
   "schema", "warehouse", "role", "user", "password", "account", "view",
   "function", "procedure", "pipe", "stage", "file", "format", "sequence"}

isReservedWord(word) == ToLowerCase(word) \in reservedWords

\* a formatter that folds the case of the names it quotes as well
formatIdentifierFolded(identifier) ==
  IF HasNonWordChar(identifier) \/ isReservedWord(identifier)
  THEN "\"" \o ToUpperCase(identifier) \o "\""
  ELSE ToUpperCase(identifier)

formatIdentifier(identifier) ==
  IF HasNonWordChar(identifier) \/ isReservedWord(identifier)
  THEN "\"" \o identifier \o "\""
  ELSE ToUpperCase(identifier)

IsPkColumn(col) == col.isPrimaryKey

IsFkColumn(col) ==
  col.isForeignKey /\ col.referencedTable # "" /\ col.referencedColumn # ""

ColumnName(col) == col.name

FkOfColumn(col) ==
  [columns |-> <<col.name>>,
   referencedTable |-> col.referencedTable,
   referencedColumns |-> <<col.referencedColumn>>]

\* one SnowflakeTable per node; an empty primaryKey / foreignKeys list
\* stands for the undefined the code stores, which it tests the same way
NodeToTable(node) ==
  [name |-> node.label,
   columns |-> node.columns,
   primaryKey |-> SeqMap(ColumnName, SelectIdx(node.columns, IsPkColumn)),
   foreignKeys |-> SeqMap(FkOfColumn, SelectIdx(node.columns, IsFkColumn))]

nodesToTables(nodes) == SeqMap(NodeToTable, nodes)

\* a column line that writes the constraint for every column
ColumnDefinitionNotNull(column) ==
  "  " \o formatIdentifier(column.name) \o " " \o column.dataType \o " NOT NULL"

ColumnDefinition(column) ==
  "  " \o formatIdentifier(column.name) \o " " \o column.dataType
       \o (IF ~column.isNullable THEN " NOT NULL" ELSE "")

generateTableDDL(table) ==
  "CREATE OR REPLACE TABLE " \o formatIdentifier(table.name) \o " (\n"
    \o Join(SeqMap(ColumnDefinition, table.columns), ",\n")
    \o (IF Len(table.primaryKey) > 0
        THEN ",\n  PRIMARY KEY ("
               \o Join(SeqMap(formatIdentifier, table.primaryKey), ", ")
               \o ")"
        ELSE "")
    \o "\n);"

generateForeignKeyDDL(tableName, foreignKey) ==
  "ALTER TABLE " \o formatIdentifier(tableName) \o "\n"
    \o "  ADD FOREIGN KEY ("
    \o Join(SeqMap(formatIdentifier, foreignKey.columns), ", ") \o ")\n"
    \o "  REFERENCES " \o formatIdentifier(foreignKey.referencedTable) \o " ("
    \o Join(SeqMap(formatIdentifier, foreignKey.referencedColumns), ", ")
    \o ");"

RECURSIVE CreateStatements(_)
CreateStatements(tables) ==
  IF tables = <<>> THEN ""
  ELSE generateTableDDL(Head(tables)) \o "\n\n"
         \o CreateStatements(Tail(tables))

RECURSIVE TableForeignKeys(_, _)
TableForeignKeys(tableName, fks) ==
  IF fks = <<>> THEN ""
  ELSE generateForeignKeyDDL(tableName, Head(fks)) \o "\n\n"
         \o TableForeignKeys(tableName, Tail(fks))

RECURSIVE ForeignKeyStatements(_)
ForeignKeyStatements(tables) ==
  IF tables = <<>> THEN ""
  ELSE TableForeignKeys(Head(tables).name, Head(tables).foreignKeys)
         \o ForeignKeyStatements(Tail(tables))

\* a generator with a single loop: each table followed by its foreign keys
RECURSIVE InterleavedStatements(_)
InterleavedStatements(tables) ==
  IF tables = <<>> THEN ""
  ELSE generateTableDDL(Head(tables)) \o "\n\n"
         \o TableForeignKeys(Head(tables).name, Head(tables).foreignKeys)
         \o InterleavedStatements(Tail(tables))

generateInterleavedDDL(nodes, edges) ==
  InterleavedStatements(nodesToTables(nodes))

\* a generator that also writes a foreign-key statement for every edge
RECURSIVE EdgeStatements(_, _)
EdgeStatements(nodes, edges) ==
  IF edges = <<>> THEN ""
  ELSE generateForeignKeyDDL(nodes[1].label,
         [columns |-> <<"ID">>,
          referencedTable |-> nodes[Len(nodes)].label,
          referencedColumns |-> <<"ID">>]) \o "\n\n"
         \o EdgeStatements(nodes, Tail(edges))

generateWithEdgesDDL(nodes, edges) ==
  LET tables == nodesToTables(nodes)
  IN CreateStatements(tables) \o ForeignKeyStatements(tables)
       \o EdgeStatements(nodes, edges)

\* new DDLGenerator(nodes, edges).generateSnowflakeDDL(); edges is stored
\* by the constructor and read nowhere
generateSnowflakeDDL(nodes, edges) ==
  LET tables == nodesToTables(nodes)
  IN CreateStatements(tables) \o ForeignKeyStatements(tables)

\* ---------------------------------------------------------------- DDLParser

\* (TABLE|VIEW|MATERIALIZED_VIEW|DYNAMIC_TABLE|ICEBERG_TABLE)
TableTypes ==
  Alt(<< <<Lit("TABLE")>>, <<Lit("VIEW")>>, <<Lit("MATERIALIZED_VIEW")>>,
         <<Lit("DYNAMIC_TABLE")>>, <<Lit("ICEBERG_TABLE")>> >>)

\* /CREATE\s+(OR\s+REPLACE\s+)?(TABLE|...)\s+/i
createTableRegex ==
  <<Lit("CREATE"), Rep("s", 1),
    Opt(<<Grp(1, <<Lit("OR"), Rep("s", 1), Lit("REPLACE"), Rep("s", 1)>>)>>),
    Grp(2, <<TableTypes>>), Rep("s", 1)>>

isCreateTableStatement(statement) == Test(statement, createTableRegex, TRUE)

\* /ALTER\s+TABLE.*ADD\s+(CONSTRAINT\s+\w+\s+)?FOREIGN\s+KEY/i
addForeignKeyRegex ==
  <<Lit("ALTER"), Rep("s", 1), Lit("TABLE"), Rep(".", 0),
    Lit("ADD"), Rep("s", 1),
    Opt(<<Grp(1, <<Lit("CONSTRAINT"), Rep("s", 1), Rep("w", 1), Rep("s", 1)>>)>>),
    Lit("FOREIGN"), Rep("s", 1), Lit("KEY")>>

isAlterTableAddForeignKey(statement) == Test(statement, addForeignKeyRegex, TRUE)

\* (?:"([^"]+)"|([a-zA-Z0-9_]+)) with groups a and b
NamePart(a, b) ==
  Alt(<< <<Lit("\""), Grp(a, <<Rep("^dq", 1)>>), Lit("\"")>>,
         <<Grp(b, <<Rep("w", 1)>>)>> >>)

\* the pattern of parseCreateTable for the name: one to three parts (groups
\* 3 to 8), or a dotted name inside one pair of quotes (group 9), or an
\* unquoted dotted name (group 10)
qualifiedNameRegex ==
  <<Lit("CREATE"), Rep("s", 1),
    Opt(<<Grp(1, <<Lit("OR"), Rep("s", 1), Lit("REPLACE"), Rep("s", 1)>>)>>),
    Grp(2, <<TableTypes>>), Rep("s", 1),
    Alt(<< <<NamePart(3, 4),
             Opt(<<Lit("."), NamePart(5, 6)>>),
             Opt(<<Lit("."), NamePart(7, 8)>>)>>,
           <<Lit("\""),
             Grp(9, <<Rep("^dq", 1), Lit("."), Rep("^dq", 1),
                      Opt(<<Lit("."), Rep("^dq", 1)>>)>>),
             Lit("\"")>>,
           <<Grp(10, <<Rep("w", 1), Lit("."), Rep("w", 1),
                       Opt(<<Lit("."), Rep("w", 1)>>)>>)>> >>)>>

\* typeMatch?.[2]?.toUpperCase() || 'TABLE'
TableTypeOf(typeMatch) ==
  IF Group(typeMatch, 2) # "" THEN ToUpperCase(Group(typeMatch, 2)) ELSE "TABLE"

\* parts[parts.length - 1] of name.split('.')
LastPart(name) == Split(name, ".")[Len(Split(name, "."))]

\* the name built from the individual parts
NameOfParts(dbPart, schemaPart, tableNamePart) ==
  IF tableNamePart # ""
  THEN [tableName |-> tableNamePart,
        fullTableName |-> dbPart \o "." \o schemaPart \o "." \o tableNamePart]
  ELSE IF schemaPart # ""
  THEN [tableName |-> schemaPart, fullTableName |-> dbPart \o "." \o schemaPart]
  ELSE [tableName |-> dbPart, fullTableName |-> dbPart]

\* tableName and fullTableName of a name match
QualifiedName(nameMatch) ==
  IF Group(nameMatch, 9) # ""
  THEN [tableName |-> LastPart(Group(nameMatch, 9)),
        fullTableName |-> Group(nameMatch, 9)]
  ELSE IF Group(nameMatch, 10) # ""
  THEN [tableName |-> LastPart(Group(nameMatch, 10)),
        fullTableName |-> Group(nameMatch, 10)]
  ELSE NameOfParts(GroupOr(nameMatch, 3, 4), GroupOr(nameMatch, 5, 6),
                   GroupOr(nameMatch, 7, 8))

\* the depth after the character at j, counted from the first "(" at startIdx
DepthAt(statement, startIdx, j) ==
  1 + Cardinality({k \in (startIdx + 1)..j : Ch(statement, k) = "("})
    - Cardinality({k \in (startIdx + 1)..j : Ch(statement, k) = ")"})

\* the text between the first "(" at startIdx and the ")" at endIdx; the
\* loop leaves endIdx at startIdx + 1 when the depth never returns to 0
ColumnsBetween(statement, startIdx, endIdx) ==
  IF startIdx = 0 \/ endIdx = 0 THEN ""
  ELSE Trim(SubSeq(statement, startIdx + 1, endIdx - 1))

MatchingParen(statement, startIdx) ==
  IF startIdx = 0 THEN 0
  ELSE FirstPos(startIdx + 1, Len(statement),
                LAMBDA j : DepthAt(statement, startIdx, j) = 0)

extractColumnDefinitions(statement) ==
  ColumnsBetween(statement, IndexOf(statement, "("),
                 MatchingParen(statement, IndexOf(statement, "(")))

\* .split(',').map(col => col.trim().replace(/"/g, '').toUpperCase())
NormalizeColumn(col) == ToUpperCase(RemoveQuotes(Trim(col)))

ColumnList(text) == SeqMap(NormalizeColumn, Split(text, ","))

\* .replace(/''/, "'"): the first occurrence only, the pattern has no g flag
ReplaceAt(s, p) ==
  IF p = 0 THEN s ELSE SubSeq(s, 1, p - 1) \o "'" \o From(s, p + 2)

ReplaceFirstDoubledQuote(s) == ReplaceAt(s, IndexOf(s, "''"))

\* /COMMENT\s*=\s*'([^']*)'/i
tableCommentRegex ==
  <<Lit("COMMENT"), Rep("s", 0), Lit("="), Rep("s", 0),
    Lit("'"), Grp(1, <<Rep("^sq", 0)>>), Lit("'")>>

\* /WITH\s+TAG\s+\(([^)]*)\)/i
withTagRegex ==
  <<Lit("WITH"), Rep("s", 1), Lit("TAG"), Rep("s", 1),
    Lit("("), Grp(1, <<Rep("^rp", 0)>>), Lit(")")>>

\* /'([^']+)'\s*=\s*'true'/g
tagNameRegex ==
  <<Lit("'"), Grp(1, <<Rep("^sq", 1)>>), Lit("'"),
    Rep("s", 0), Lit("="), Rep("s", 0), Lit("'true'")>>

\* commentMatch ? commentMatch[1].replace(/''/, "'") : ''
CommentOf(commentMatch) ==
  IF commentMatch.ok THEN ReplaceFirstDoubledQuote(Group(commentMatch, 1)) ELSE ""

\* the tag names pushed by the exec loop over tagsMatch[1]
TagsOf(tagsMatch) ==
  IF tagsMatch.ok
  THEN Groups(ExecAll(Group(tagsMatch, 1), 1, tagNameRegex, FALSE), 1)
  ELSE <<>>

\* The pattern syntax check of new RegExp(source): ok turns FALSE where the
\* constructor throws a SyntaxError.  Covered: escapes, character classes,
\* groups, alternation, the quantifiers * + ? {n} {n,} {n,m} with their lazy
\* form, and the assertions ^ $ \b \B.  The state is the position i, the
\* number of open groups, and atom: a quantifier may follow.
PatternTo(j, depth, atom) == [i |-> j, depth |-> depth, atom |-> atom, ok |-> TRUE]

PatternBad(st) == [st EXCEPT !.ok = FALSE]

\* past the ? of a lazy quantifier
AfterQuantifier(src, j) == IF Ch(src, j) = "?" THEN j + 1 ELSE j

\* the number of backslashes that end just before j, inside the class
\* opened at i
Slashes(src, i, j) ==
  FirstPos(0, j - i - 1, LAMBDA n : Ch(src, j - 1 - n) # "\\")

\* the "]" that closes the class opened at i, 0 when it stays open
ClassEnd(src, i) ==
  FirstPos(i + 1, Len(src),
           LAMBDA j : Ch(src, j) = "]" /\ Slashes(src, i, j) % 2 = 0)

\* the position of the "}" of {n} {n,} {n,m} opened at i, 0 when it is not one
BraceEnd(src, i, d1) ==
  IF d1 = i + 1 THEN 0
  ELSE IF Ch(src, d1) = "}" THEN d1
  ELSE IF Ch(src, d1) = "," /\ Ch(src, SpanEnd(src, d1 + 1, "d")) = "}"
  THEN SpanEnd(src, d1 + 1, "d")
  ELSE 0

\* (?: (?= (?! (?<= (?<! (?<name> opened at i
GroupPrefix(src, i, st, w) ==
  IF Ch(src, i + 2) \in {":", "=", "!"} THEN PatternTo(i + 3, st.depth + 1, FALSE)
  ELSE IF Ch(src, i + 2) = "<" /\ Ch(src, i + 3) \in {"=", "!"}
  THEN PatternTo(i + 4, st.depth + 1, FALSE)
  ELSE IF Ch(src, i + 2) = "<" /\ w > i + 3 /\ Ch(src, w) = ">"
  THEN PatternTo(w + 1, st.depth + 1, FALSE)
  ELSE PatternBad(st)

PatternAt(src, st, i, c, classEnd, braceEnd) ==
  IF c = "\\" THEN
    IF i < Len(src)
    THEN PatternTo(i + 2, st.depth, Ch(src, i + 1) \notin {"b", "B"})
    ELSE PatternBad(st)
  ELSE IF c = "[" THEN
    IF classEnd > 0 THEN PatternTo(classEnd + 1, st.depth, TRUE)
    ELSE PatternBad(st)
  ELSE IF c = "(" /\ Ch(src, i + 1) = "?" THEN
    GroupPrefix(src, i, st, SpanEnd(src, i + 3, "w"))
  ELSE IF c = "(" THEN PatternTo(i + 1, st.depth + 1, FALSE)
  ELSE IF c = ")" THEN
    IF st.depth > 0 THEN PatternTo(i + 1, st.depth - 1, TRUE) ELSE PatternBad(st)
  ELSE IF c = "|" THEN PatternTo(i + 1, st.depth, FALSE)
  ELSE IF c \in {"*", "+", "?"} THEN
    IF st.atom THEN PatternTo(AfterQuantifier(src, i + 1), st.depth, FALSE)
    ELSE PatternBad(st)
  ELSE IF c = "{" /\ braceEnd > 0 THEN
    IF st.atom THEN PatternTo(AfterQuantifier(src, braceEnd + 1), st.depth, FALSE)
    ELSE PatternBad(st)
  ELSE IF c \in {"^", "$"} THEN PatternTo(i + 1, st.depth, FALSE)
  ELSE PatternTo(i + 1, st.depth, TRUE)

PatternStep(src, st) ==
  PatternAt(src, st, st.i, Ch(src, st.i), ClassEnd(src, st.i),
            BraceEnd(src, st.i, SpanEnd(src, st.i + 1, "d")))

\* the steps that start at a position <= limit
RECURSIVE PatternRun(_, _, _)
PatternRun(src, st, limit) ==
  IF ~st.ok \/ st.i > limit THEN st
  ELSE PatternRun(src, PatternStep(src, st), limit)

\* the steps that start in lo..hi, by halves
RECURSIVE PatternScan(_, _, _, _)
PatternScan(src, st, lo, hi) ==
  IF hi - lo < 8 THEN PatternRun(src, st, hi)
  ELSE PatternScan(src, PatternScan(src, st, lo, (lo + hi) \div 2),
                   (lo + hi) \div 2 + 1, hi)

PatternAccepted(st) == st.ok /\ st.depth = 0

RegExpCompiles(source) ==
  PatternAccepted(PatternScan(source,
                              [i |-> 1, depth |-> 0, atom |-> FALSE, ok |-> TRUE],
                              1, Len(source)))

\* the pattern source parseColumns builds from the column name
tagRegexSource(name) ==
  "ALTER\\s+TABLE.*MODIFY\\s+COLUMN\\s+(?:\"" \o name \o "\"|" \o name
    \o ")\\s+SET\\s+TAG\\s+([^;]+)"

\* The pattern of tagRegexSource(name) with the name read as literal text:
\* exact for a name without pattern metacharacters, and for any name when
\* the statement holds no ALTER TABLE ... MODIFY COLUMN on one line.
tagRegex(name) ==
  <<Lit("ALTER"), Rep("s", 1), Lit("TABLE"), Rep(".", 0),
    Lit("MODIFY"), Rep("s", 1), Lit("COLUMN"), Rep("s", 1),
    Alt(<< <<Lit("\"" \o name \o "\"")>>, <<Lit(name)>> >>),
    Rep("s", 1), Lit("SET"), Rep("s", 1), Lit("TAG"), Rep("s", 1),
    Grp(1, <<Rep("^sc", 1)>>)>>

\* /PRIMARY\s+KEY\s*\(([^)]+)\)/i
primaryKeyRegex ==
  <<Lit("PRIMARY"), Rep("s", 1), Lit("KEY"), Rep("s", 0),
    Lit("("), Grp(1, <<Rep("^rp", 1)>>), Lit(")")>>

\* /^(PRIMARY|FOREIGN|UNIQUE)\s+KEY/i, matched at the start of the line
constraintRegex ==
  <<Grp(1, <<Alt(<< <<Lit("PRIMARY")>>, <<Lit("FOREIGN")>>, <<Lit("UNIQUE")>> >>)>>),
    Rep("s", 1), Lit("KEY")>>

\* /^(?:"([^"]+)"|([a-zA-Z0-9_]+))\s+/, matched at the start of the line
columnNameRegex == <<NamePart(1, 2), Rep("s", 1)>>

\* /\s+([a-zA-Z0-9_]+(\([^)]+\))?)/
columnTypeRegex ==
  <<Rep("s", 1),
    Grp(1, <<Rep("w", 1),
             Opt(<<Grp(2, <<Lit("("), Rep("^rp", 1), Lit(")")>>)>>)>>)>>

\* /NOT\s+NULL/i
notNullRegex == <<Lit("NOT"), Rep("s", 1), Lit("NULL")>>

\* /COMMENT\s+'([^']*)'/i
columnCommentRegex ==
  <<Lit("COMMENT"), Rep("s", 1), Lit("'"), Grp(1, <<Rep("^sq", 0)>>), Lit("'")>>

SplitLines(columnsSection) == SeqMap(Trim, Split(columnsSection, ",\n"))

\* primaryKeyMatch ? primaryKeyMatch[1].split(',').map(...) : []
PrimaryKeyList(primaryKeyMatch) ==
  IF primaryKeyMatch.ok THEN ColumnList(Group(primaryKeyMatch, 1)) ELSE <<>>

\* a primary-key list that keeps the double quotes of its names
QuotedKeyName(col) == ToUpperCase(Trim(col))

QuotedKeyList(primaryKeyMatch) ==
  IF primaryKeyMatch.ok
  THEN SeqMap(QuotedKeyName, Split(Group(primaryKeyMatch, 1), ",")) ELSE <<>>

primaryKeyColumnsQuoted(columnsSection) ==
  QuotedKeyList(Exec(columnsSection, primaryKeyRegex, TRUE))

primaryKeyColumnsOf(columnsSection) ==
  PrimaryKeyList(Exec(columnsSection, primaryKeyRegex, TRUE))

InSeq(x, xs) == \E k \in 1..Len(xs) : xs[k] = x

\* typeMatch ? typeMatch[1] : 'VARCHAR'
DataTypeOf(typeMatch) == IF typeMatch.ok THEN Group(typeMatch, 1) ELSE "VARCHAR"

\* the column pushed for a line whose name matched; new RegExp throws first
\* when the name does not make a pattern
ColumnOfLine(line, primaryKeyColumns, fullStatement, id, name) ==
  IF ~RegExpCompiles(tagRegexSource(name)) THEN [kind |-> "throw"]
  ELSE [kind |-> "column",
        column |->
          [id |-> id,
           name |-> name,
           dataType |-> DataTypeOf(Exec(line, columnTypeRegex, FALSE)),
           isPrimaryKey |-> InSeq(ToUpperCase(name), primaryKeyColumns),
           isForeignKey |-> FALSE,
           isNullable |-> ~Test(line, notNullRegex, TRUE),
           referencedTable |-> "",
           referencedColumn |-> "",
           comment |-> CommentOf(Exec(line, columnCommentRegex, TRUE)),
           tags |-> TagsOf(Exec(fullStatement, tagRegex(name), TRUE))]]

NamedColumn(line, primaryKeyColumns, fullStatement, id, nameMatch) ==
  IF ~nameMatch.ok THEN [kind |-> "skip"]
  ELSE ColumnOfLine(line, primaryKeyColumns, fullStatement, id,
                    GroupOr(nameMatch, 1, 2))

\* one column line of parseColumns: skip it, throw, or yield a column
ParseColumnLine(line, primaryKeyColumns, fullStatement, id) ==
  IF MatchAt(line, 1, constraintRegex, TRUE).ok THEN [kind |-> "skip"]
  ELSE NamedColumn(line, primaryKeyColumns, fullStatement, id,
                   MatchAt(line, 1, columnNameRegex, FALSE))

\* the loop of parseColumns after one more line with outcome r
RECURSIVE ParseLines(_, _, _, _, _)
AfterLine(r, lines, primaryKeyColumns, fullStatement, uuid0, columns) ==
  IF r.kind = "throw" THEN [threw |-> TRUE, columns |-> <<>>]
  ELSE ParseLines(Tail(lines), primaryKeyColumns, fullStatement, uuid0,
                  IF r.kind = "column" THEN Append(columns, r.column) ELSE columns)

\* parseColumns: threw, or the columns; the k-th column gets id uuid0 + k
ParseLines(lines, primaryKeyColumns, fullStatement, uuid0, columns) ==
  IF lines = <<>> THEN [threw |-> FALSE, columns |-> columns]
  ELSE AfterLine(ParseColumnLine(Head(lines), primaryKeyColumns, fullStatement,
                                 uuid0 + Len(columns) + 1),
                 lines, primaryKeyColumns, fullStatement, uuid0, columns)

parseColumns(columnsSection, fullStatement, uuid0) ==
  ParseLines(SplitLines(columnsSection), primaryKeyColumnsOf(columnsSection),
             fullStatement, uuid0, <<>>)

\* the map this.tableNames as a function; set() replaces an existing key
MapSet(map, key, value) == (key :> value) @@ map

MapHas(map, key) == key \in DOMAIN map

\* the node pushed by parseCreateTable, its id drawn after the column ids
TableNode(nodeId, fullTableName, columns, tableType, comment, tags) ==
  [id |-> nodeId, label |-> fullTableName, columns |-> columns,
   tableType |-> tableType, comment |-> comment, tags |-> tags]

\* parseCreateTable from "if (!tableName) return" on
CreateTable(nodes, tableNames, uuid, name, parsed, tableType, comment, tags) ==
  IF name.tableName = ""
  THEN [threw |-> FALSE, nodes |-> nodes, tableNames |-> tableNames, uuid |-> uuid]
  ELSE IF parsed.threw
  THEN [threw |-> TRUE, nodes |-> nodes, tableNames |-> tableNames, uuid |-> uuid]
  ELSE [threw |-> FALSE,
        nodes |-> Append(nodes,
                         TableNode(uuid + Len(parsed.columns) + 1,
                                   name.fullTableName, parsed.columns,
                                   tableType, comment, tags)),
        tableNames |-> MapSet(tableNames, ToUpperCase(name.tableName),
                              uuid + Len(parsed.columns) + 1),
        uuid |-> uuid + Len(parsed.columns) + 1]

NamedTable(statement, nodes, tableNames, uuid, nameMatch) ==
  IF ~nameMatch.ok
  THEN [threw |-> FALSE, nodes |-> nodes, tableNames |-> tableNames, uuid |-> uuid]
  ELSE CreateTable(nodes, tableNames, uuid, QualifiedName(nameMatch),
                   parseColumns(extractColumnDefinitions(statement), statement, uuid),
                   TableTypeOf(Exec(statement, createTableRegex, TRUE)),
                   CommentOf(Exec(statement, tableCommentRegex, TRUE)),
                   TagsOf(Exec(statement, withTagRegex, TRUE)))

\* parseCreateTable on the parser state (nodes, tableNames, the uuid
\* counter): threw is TRUE when new RegExp threw inside parseColumns
parseCreateTable(statement, nodes, tableNames, uuid) ==
  NamedTable(statement, nodes, tableNames, uuid,
             Exec(statement, qualifiedNameRegex, TRUE))

\* (?:"([^"]+(?:\.[^"]+)*?)"|([a-zA-Z0-9_]+(?:\.[a-zA-Z0-9_]+)*))
TableRef ==
  Alt(<< <<Lit("\""),
           Grp(1, <<Rep("^dq", 1), Lazy(<<Lit("."), Rep("^dq", 1)>>)>>),
           Lit("\"")>>,
         <<Grp(2, <<Rep("w", 1), Star(<<Lit("."), Rep("w", 1)>>)>>)>> >>)

\* /ALTER\s+TABLE\s+(?:"..."|name)/i
alterTableRegex ==
  <<Lit("ALTER"), Rep("s", 1), Lit("TABLE"), Rep("s", 1), TableRef>>

\* /FOREIGN\s+KEY\s*\(([^)]+)\)/i
foreignKeyRegex ==
  <<Lit("FOREIGN"), Rep("s", 1), Lit("KEY"), Rep("s", 0),
    Lit("("), Grp(1, <<Rep("^rp", 1)>>), Lit(")")>>

\* /REFERENCES\s+(?:"..."|name)\s*\(([^)]+)\)/i
referencesRegex ==
  <<Lit("REFERENCES"), Rep("s", 1), TableRef, Rep("s", 0),
    Lit("("), Grp(3, <<Rep("^rp", 1)>>), Lit(")")>>

EndsWith(s, t) ==
  Len(t) <= Len(s) /\ SubSeq(s, Len(s) - Len(t) + 1, Len(s)) = t

\* index in nodes of the node with this id, 0 when there is none
NodeIndexOfId(nodes, id) == MinPos({k \in 1..Len(nodes) : nodes[k].id = id})

\* a fallback that accepts any label ending with the short name
NodeIndexBySuffix(nodes, fullName, shortName) ==
  MinPos({k \in 1..Len(nodes) :
            \/ ToUpperCase(nodes[k].label) = ToUpperCase(fullName)
            \/ EndsWith(ToUpperCase(nodes[k].label), shortName)})

\* the fallback loop: the first node whose label is the full name or ends
\* with "." and the short name
NodeIndexByLabel(nodes, fullName, shortName) ==
  MinPos({k \in 1..Len(nodes) :
            \/ ToUpperCase(nodes[k].label) = ToUpperCase(fullName)
            \/ EndsWith(ToUpperCase(nodes[k].label), "." \o shortName)})

\* the exact lookup: both short names must be keys of tableNames
NodeIndexByName(nodes, tableNames, tableName, otherTable) ==
  IF MapHas(tableNames, tableName) /\ MapHas(tableNames, otherTable)
  THEN NodeIndexOfId(nodes, tableNames[tableName]) ELSE 0

\* the node found for one end: the exact one, else the one of the fallback
FoundNode(nodes, exact, fullName, shortName) ==
  IF exact # 0 THEN exact ELSE NodeIndexByLabel(nodes, fullName, shortName)

\* the source column named sourceCol, 0 when there is none
ColumnIndex(columns, sourceCol) ==
  MinPos({k \in 1..Len(columns) : ToUpperCase(columns[k].name) = sourceCol})

MarkColumn(columns, c, label, targetCol) ==
  IF c = 0 THEN columns
  ELSE [columns EXCEPT ![c].isForeignKey = TRUE,
                       ![c].referencedTable = label,
                       ![c].referencedColumn = targetCol]

\* a loop that pairs every source column with the first target column
RECURSIVE MarkForeignKeysToFirst(_, _, _, _, _)
MarkForeignKeysToFirst(columns, sourceCols, targetCols, label, k) ==
  IF k > Len(sourceCols) \/ k > Len(targetCols) THEN columns
  ELSE MarkForeignKeysToFirst(MarkColumn(columns,
                                         ColumnIndex(columns, sourceCols[k]),
                                         label, targetCols[1]),
                              sourceCols, targetCols, label, k + 1)

\* the columns of the source node after the loop over the column pairs
RECURSIVE MarkForeignKeys(_, _, _, _, _)
MarkForeignKeys(columns, sourceCols, targetCols, label, k) ==
  IF k > Len(sourceCols) \/ k > Len(targetCols) THEN columns
  ELSE MarkForeignKeys(MarkColumn(columns, ColumnIndex(columns, sourceCols[k]),
                                  label, targetCols[k]),
                       sourceCols, targetCols, label, k + 1)

\* a resolution that relates a found source to a target that was not found
RelateUnchecked(nodes, edges, uuid, sourceCols, targetCols, source, target) ==
  IF source > 0
  THEN [nodes |-> nodes,
        edges |-> Append(edges, [id |-> uuid + 1,
                                 source |-> nodes[source].id,
                                 target |-> IF target > 0 THEN nodes[target].id
                                            ELSE 0,
                                 relationshipType |-> "one-to-many"]),
        uuid |-> uuid + 1]
  ELSE [nodes |-> nodes, edges |-> edges, uuid |-> uuid]

\* the relationship between the nodes at source and target (0: not found)
Relate(nodes, edges, uuid, sourceCols, targetCols, source, target) ==
  IF source > 0 /\ target > 0
  THEN [nodes |-> [nodes EXCEPT ![source].columns =
                     MarkForeignKeys(@, sourceCols, targetCols,
                                     nodes[target].label, 1)],
        edges |-> Append(edges, [id |-> uuid + 1,
                                 source |-> nodes[source].id,
                                 target |-> nodes[target].id,
                                 relationshipType |-> "one-to-many"]),
        uuid |-> uuid + 1]
  ELSE [nodes |-> nodes, edges |-> edges, uuid |-> uuid]

\* the short name used for the lookup
ShortName(fullName) == ToUpperCase(LastPart(fullName))

ResolveForeignKey(nodes, edges, tableNames, uuid, fullSourceName, fullTargetName, sourceCols, targetCols) ==
  Relate(nodes, edges, uuid, sourceCols, targetCols,
         FoundNode(nodes,
                   NodeIndexByName(nodes, tableNames, ShortName(fullSourceName),
                                   ShortName(fullTargetName)),
                   fullSourceName, ShortName(fullSourceName)),
         FoundNode(nodes,
                   NodeIndexByName(nodes, tableNames, ShortName(fullTargetName),
                                   ShortName(fullSourceName)),
                   fullTargetName, ShortName(fullTargetName)))

ForeignKeyOf(nodes, edges, tableNames, uuid, tableMatch, sourceColsMatch, refsMatch) ==
  IF ~tableMatch.ok \/ ~sourceColsMatch.ok \/ ~refsMatch.ok
  THEN [nodes |-> nodes, edges |-> edges, uuid |-> uuid]
  ELSE ResolveForeignKey(nodes, edges, tableNames, uuid,
                         GroupOr(tableMatch, 1, 2), GroupOr(refsMatch, 1, 2),
                         ColumnList(Group(sourceColsMatch, 1)),
                         ColumnList(Group(refsMatch, 3)))

\* parseForeignKeyConstraint on the parser state (nodes, edges, the uuid
\* counter); tableNames is only read
parseForeignKeyConstraint(statement, nodes, edges, tableNames, uuid) ==
  ForeignKeyOf(nodes, edges, tableNames, uuid,
               Exec(statement, alterTableRegex, TRUE),
               Exec(statement, foreignKeyRegex, TRUE),
               Exec(statement, referencesRegex, TRUE))

\* --------------------------------------------------------------- YAMLParser

\* What js-yaml gave back for the text (the library is outside the source):
\* loadAll and load each either throw or hand back the documents of the text;
\* load hands back the first document, undefined for an empty text.
splitYAMLDocuments(content) ==
  IF content.loadAll = "ok" THEN content.docs
  ELSE IF content.load = "ok"
       THEN (IF content.docs = <<>> THEN <<>> ELSE <<content.docs[1]>>)
       ELSE <<>>

\* the tests of a column, [] when the field is no array
TestsOf(column) == column.tests

checkIsPrimaryKey(column) ==
  \E t \in 1..Len(TestsOf(column)) :
    TestsOf(column)[t].key \in {"unique", "primary_key"}

checkIsForeignKey(column) ==
  \E t \in 1..Len(TestsOf(column)) :
    /\ TestsOf(column)[t].type = "object"
    /\ TestsOf(column)[t].key \in {"relationships", "foreign_key"}

\* a check that sees not_null only as a bare string
checkIsNotNullBare(column) ==
  \E t \in 1..Len(TestsOf(column)) :
    TestsOf(column)[t].type = "string" /\ TestsOf(column)[t].key = "not_null"

checkIsNotNull(column) ==
  \E t \in 1..Len(TestsOf(column)) : TestsOf(column)[t].key = "not_null"

\* the Column pushed for a dbt column; uuidv4() gave id
ManifestColumn(col, id, isForeignKey) ==
  [id |-> id,
   name |-> col.name,
   dataType |-> IF col.data_type # "" THEN col.data_type ELSE "VARCHAR",
   isPrimaryKey |-> checkIsPrimaryKey(col),
   isForeignKey |-> isForeignKey,
   isNullable |-> ~checkIsNotNull(col),
   referencedTable |-> "",
   referencedColumn |-> "",
   comment |-> col.description,
   tags |-> col.tags]

MaterializedType(materialized) ==
  LET materialization == ToUpperCase(materialized)
  IN IF materialization = "VIEW" THEN "VIEW"
     ELSE IF materialization = "MATERIALIZED_VIEW" THEN "MATERIALIZED_VIEW"
     ELSE "TABLE"

\* st holds nodes, edges, modelMap, sourceMap and uuid of the parser
createModelNode(model, st) ==
  IF model.name = "" THEN st
  ELSE LET nodeId == st.uuid + 1
           columns == [k \in 1..Len(model.columns) |->
                         ManifestColumn(model.columns[k], nodeId + k,
                                        checkIsForeignKey(model.columns[k]))]
           node == [id |-> nodeId,
                    label |-> model.name,
                    columns |-> columns,
                    tableType |-> MaterializedType(model.materialized),
                    comment |-> model.description,
                    tags |-> model.tags]
       IN [st EXCEPT !.modelMap = MapSet(@, model.name, nodeId),
                     !.nodes = Append(@, node),
                     !.uuid = nodeId + Len(model.columns)]

\* the loop over source.tables: tablesMap is sourceTablesMap so far
RECURSIVE SourceTables(_, _, _, _)
SourceTables(source, tables, tablesMap, st) ==
  IF tables = <<>> THEN [st EXCEPT !.sourceMap = MapSet(@, source.name, tablesMap)]
  ELSE LET table == Head(tables)
           nodeId == st.uuid + 1
           columns == [k \in 1..Len(table.columns) |->
                         ManifestColumn(table.columns[k], nodeId + k, FALSE)]
           node == [id |-> nodeId,
                    label |-> source.name \o "." \o table.name,
                    columns |-> columns,
                    tableType |-> "TABLE",
                    comment |-> IF table.description # "" THEN table.description
                                ELSE source.description,
                    tags |-> source.tags \o table.tags]
       IN SourceTables(source, Tail(tables), MapSet(tablesMap, table.name, nodeId),
                       [st EXCEPT !.nodes = Append(@, node),
                                  !.uuid = nodeId + Len(table.columns)])

createSourceNodes(source, st) ==
  IF ~source.hasTables THEN st
  ELSE SourceTables(source, source.tables, [k \in {} |-> 0], st)

\* the parser state st is a value: each loop below works on the state the
\* step before it left, as the statements of the source do (an evaluation
\* that put the steps off would nest them all)
Evaluated(st) == st.uuid >= 0

createRelationshipEdge(sourceId, targetId, st) ==
  [st EXCEPT !.edges = Append(@, [id |-> st.uuid + 1,
                                  source |-> sourceId,
                                  target |-> targetId,
                                  relationshipType |-> "one-to-many"]),
             !.uuid = st.uuid + 1]

\* ['"]([^'"]+)['"] with group n
QuotedName(n) == <<One("q"), Grp(n, <<Rep("^q", 1)>>), One("q")>>

\* /ref\s*\(\s*['"]([^'"]+)['"]\s*\)/
refRegex ==
  <<Lit("ref"), Rep("s", 0), Lit("("), Rep("s", 0)>> \o QuotedName(1)
    \o <<Rep("s", 0), Lit(")")>>

\* /source\s*\(\s*['"]([^'"]+)['"],\s*['"]([^'"]+)['"]\s*\)/
sourceRegex ==
  <<Lit("source"), Rep("s", 0), Lit("("), Rep("s", 0)>> \o QuotedName(1)
    \o <<Lit(","), Rep("s", 0)>> \o QuotedName(2) \o <<Rep("s", 0), Lit(")")>>

\* the result of extractRefFromString from its two matches, "" for null
RefOf(refMatch, sourceMatch) ==
  IF refMatch.ok THEN Group(refMatch, 1)
  ELSE IF sourceMatch.ok
  THEN Group(sourceMatch, 1) \o "." \o Group(sourceMatch, 2)
  ELSE ""

\* the model or source.table a reference names, "" for null
extractRefFromString(refString) ==
  RefOf(Exec(refString, refRegex, FALSE), Exec(refString, sourceRegex, FALSE))

\* the edge of one source(...) match, when the source and its table are known
SourceEdge(sourceName, tableName, sourceNodeId, st) ==
  IF MapHas(st.sourceMap, sourceName) /\ MapHas(st.sourceMap[sourceName], tableName)
  THEN createRelationshipEdge(sourceNodeId, st.sourceMap[sourceName][tableName], st)
  ELSE st

\* the loop over the source(...) matches
RECURSIVE SourceEdges(_, _, _)
SourceEdges(matches, sourceNodeId, st) ==
  IF matches = <<>> \/ ~Evaluated(st) THEN st
  ELSE SourceEdges(Tail(matches), sourceNodeId,
                   SourceEdge(Group(Head(matches), 1), Group(Head(matches), 2),
                              sourceNodeId, st))

\* the loop over referencedModels
RECURSIVE ModelEdges(_, _, _)
ModelEdges(names, sourceNodeId, st) ==
  IF names = <<>> \/ ~Evaluated(st) THEN st
  ELSE ModelEdges(Tail(names), sourceNodeId,
         IF MapHas(st.modelMap, Head(names))
         THEN createRelationshipEdge(sourceNodeId, st.modelMap[Head(names)], st)
         ELSE st)

parseReferencesFromSQL(sql, sourceNodeId, st) ==
  IF sql = "" THEN st
  ELSE ModelEdges(Groups(ExecAll(sql, 1, refRegex, FALSE), 1), sourceNodeId,
                  SourceEdges(ExecAll(sql, 1, sourceRegex, FALSE), sourceNodeId, st))

\* sourceNode.data.columns.find(col => col.name === name), then the three
\* assignments
MarkFound(columns, c, targetModel, field) ==
  IF c = 0 THEN columns
  ELSE [columns EXCEPT ![c].isForeignKey = TRUE,
                       ![c].referencedTable = targetModel,
                       ![c].referencedColumn = field]

MarkManifestColumn(columns, name, targetModel, field) ==
  MarkFound(columns, MinPos({k \in 1..Len(columns) : columns[k].name = name}),
            targetModel, field)

\* the edge and the column update of a relationships test that resolved
RelateColumn(test, columnName, sourceNodeId, targetModel, st) ==
  [createRelationshipEdge(sourceNodeId, st.modelMap[targetModel], st)
     EXCEPT !.nodes[NodeIndexOfId(st.nodes, sourceNodeId)].columns =
       MarkManifestColumn(@, columnName, targetModel, test.field)]

ResolvedTest(test, columnName, sourceNodeId, targetModel, st) ==
  IF targetModel # "" /\ MapHas(st.modelMap, targetModel)
  THEN RelateColumn(test, columnName, sourceNodeId, targetModel, st)
  ELSE st

\* one test of one column in processModelRelationships
ColumnTest(test, columnName, sourceNodeId, st) ==
  IF test.type = "object" /\ test.key = "relationships"
       /\ test.to # "" /\ test.field # ""
  THEN ResolvedTest(test, columnName, sourceNodeId,
                    extractRefFromString(test.to), st)
  ELSE st

RECURSIVE ColumnTests(_, _, _, _)
ColumnTests(tests, columnName, sourceNodeId, st) ==
  IF tests = <<>> \/ ~Evaluated(st) THEN st
  ELSE ColumnTests(Tail(tests), columnName, sourceNodeId,
                   ColumnTest(Head(tests), columnName, sourceNodeId, st))

RECURSIVE ModelColumns(_, _, _)
ModelColumns(columns, sourceNodeId, st) ==
  IF columns = <<>> \/ ~Evaluated(st) THEN st
  ELSE ModelColumns(Tail(columns), sourceNodeId,
         ColumnTests(TestsOf(Head(columns)), Head(columns).name, sourceNodeId, st))

\* doc.raw_sql || model.raw_sql, "" when neither is set
RawSqlOf(model, doc) == IF doc.raw_sql # "" THEN doc.raw_sql ELSE model.raw_sql

processModelRelationships(model, doc, st) ==
  IF model.name = "" \/ ~MapHas(st.modelMap, model.name) THEN st
  ELSE ModelColumns(model.columns, st.modelMap[model.name],
                    parseReferencesFromSQL(RawSqlOf(model, doc),
                                           st.modelMap[model.name], st))

\* the edge of one schema-level test whose two ends resolved
TestEdge(fromModel, toModel, st) ==
  IF fromModel # "" /\ toModel # ""
       /\ MapHas(st.modelMap, fromModel) /\ MapHas(st.modelMap, toModel)
  THEN createRelationshipEdge(st.modelMap[fromModel], st.modelMap[toModel], st)
  ELSE st

RelationshipTest(test, st) ==
  IF test.type = "object" /\ test.key = "relationships"
       /\ test.to # "" /\ test.from # ""
  THEN TestEdge(extractRefFromString(test.from), extractRefFromString(test.to), st)
  ELSE st

RECURSIVE processRelationshipTests(_, _)
processRelationshipTests(tests, st) ==
  IF tests = <<>> \/ ~Evaluated(st) THEN st
  ELSE processRelationshipTests(Tail(tests), RelationshipTest(Head(tests), st))

\* the first pass of parse over one document
RECURSIVE CreateModelNodes(_, _)
CreateModelNodes(models, st) ==
  IF models = <<>> \/ ~Evaluated(st) THEN st
  ELSE CreateModelNodes(Tail(models), createModelNode(Head(models), st))

RECURSIVE CreateSourceNodes(_, _)
CreateSourceNodes(sources, st) ==
  IF sources = <<>> \/ ~Evaluated(st) THEN st
  ELSE CreateSourceNodes(Tail(sources), createSourceNodes(Head(sources), st))

FirstPassOfDocument(doc, st) ==
  CreateSourceNodes(doc.sources, CreateModelNodes(doc.models, st))

\* the second pass of parse over one document
RECURSIVE ModelRelationships(_, _, _)
ModelRelationships(models, doc, st) ==
  IF models = <<>> \/ ~Evaluated(st) THEN st
  ELSE ModelRelationships(Tail(models), doc,
                          processModelRelationships(Head(models), doc, st))

SecondPassOfDocument(doc, st) ==
  processRelationshipTests(doc.tests, ModelRelationships(doc.models, doc, st))

\* ------------------------------------------------------------------- inputs

MaxNodes == 2

MaxRawLen == 4

MaxPunctLen == 2

Col(name, dataType, pk, nullable, refTable, refColumn, comment, tags) ==
  [id |-> 0, name |-> name, dataType |-> dataType,
   isPrimaryKey |-> pk, isForeignKey |-> refTable # "", isNullable |-> nullable,
   referencedTable |-> refTable, referencedColumn |-> refColumn,
   comment |-> comment, tags |-> tags]

Node(label, tableType, comment, tags, columns) ==
  [id |-> 0, label |-> label, columns |-> columns, tableType |-> tableType,
   comment |-> comment, tags |-> tags]

\* the objects the caller's graphs are made of
NodePool ==
  { Node("CUSTOMERS", "TABLE", "", <<>>,
         << Col("ID", "INTEGER", TRUE, FALSE, "", "", "", <<>>),
            Col("NAME", "VARCHAR", FALSE, TRUE, "", "", "", <<>>) >>),
    Node("orders", "VIEW", "it's", <<"pii">>,
         << Col("id", "INTEGER", TRUE, FALSE, "", "", "", <<>>),
            Col("customer_id", "INTEGER", FALSE, FALSE, "CUSTOMERS", "ID", "", <<>>),
            Col("Total Amount", "NUMBER(10,2)", FALSE, TRUE, "", "", "sum", <<"money">>) >>),
    Node("Order Items", "TABLE", "", <<>>,
         << Col("Order Id", "INTEGER", TRUE, FALSE, "orders", "id", "", <<>>),
            Col("table", "INTEGER", TRUE, FALSE, "table", "A", "", <<>>),
            Col("QTY", "INTEGER", FALSE, TRUE, "", "", "", <<>>) >>),
    Node("table", "TABLE", "", <<>>,
         << Col("A", "INTEGER", TRUE, FALSE, "", "", "", <<>>),
            Col("B", "VARCHAR(10)", TRUE, TRUE, "", "", "", <<>>),
            Col("C", "DATE", FALSE, TRUE, "", "", "", <<>>) >>),
    Node("PAYMENTS", "TABLE", "", <<>>,
         << Col("ID", "INTEGER", TRUE, FALSE, "", "", "", <<>>),
            Col("ORDER_ID", "INTEGER", FALSE, TRUE, "MISSING", "ID", "", <<>>) >>),
    Node("A", "TABLE", "", <<>>,
         << Col("ID", "INTEGER", TRUE, FALSE, "", "", "", <<>>),
            Col("B_ID", "INTEGER", FALSE, TRUE, "B", "ID", "", <<>>) >>),
    Node("B", "TABLE", "", <<>>,
         << Col("ID", "INTEGER", TRUE, FALSE, "", "", "", <<>>),
            Col("A_ID", "INTEGER", FALSE, TRUE, "A", "ID", "", <<>>),
            Col("A2_ID", "INTEGER", FALSE, TRUE, "A", "ID", "", <<>>) >>) }

NoDuplicates(xs) == \A i, j \in 1..Len(xs) : xs[i] = xs[j] => i = j

\* the kinds of object
Kinds == {"TABLE", "VIEW", "MATERIALIZED_VIEW", "DYNAMIC_TABLE", "ICEBERG_TABLE"}

\* names that are keywords, kinds of object, or neither
IdentifierNames ==
  {"select", "View", "materialized_view", "Dynamic_Table", "ICEBERG_TABLE",
   "a-b", "abc_1", "orders2"}

SmallNode(label, tableType) ==
  Node(label, tableType, "", <<>>,
       << Col("ID", "INT", TRUE, FALSE, "", "", "", <<>>) >>)

\* objects that differ only in kind
KindNodes == {SmallNode("T", k) : k \in Kinds}

\* objects that differ only in name
NamedNodes == {SmallNode(n, "TABLE") : n \in IdentifierNames}

\* a column K of an object H: flagged or not, with or without each of the
\* two reference fields
HalfKeyColumn(flag, refTable, refColumn) ==
  [Col("K", "INT", FALSE, TRUE, refTable, refColumn, "", <<>>)
     EXCEPT !.isForeignKey = flag]

HalfKeyNodes ==
  {Node("H", "TABLE", "", <<>>,
        << Col("ID", "INT", TRUE, FALSE, "", "", "", <<>>),
           HalfKeyColumn(f, t, c) >>) :
     f \in BOOLEAN, t \in {"", "CUSTOMERS"}, c \in {"", "ID"}}

\* the graphs handed to generate: up to MaxNodes different objects, one
\* object with a name of IdentifierNames, two objects of different kind,
\* one object with a column of HalfKeyNodes
Graphs ==
  {g \in UNION {[1..n -> NodePool] : n \in 1..MaxNodes} : NoDuplicates(g)}
    \cup {<<n>> : n \in NamedNodes}
    \cup {g \in KindNodes \X KindNodes : g[1] # g[2]}
    \cup {<<n>> : n \in HalfKeyNodes}

\* an edge as the caller's graph holds it (the objects of the graphs above
\* all carry the id 0)
GraphEdge(id, relationshipType) ==
  [id |-> id, source |-> 0, target |-> 0, relationshipType |-> relationshipType]

\* the edges handed to generate along with the nodes
RelationshipLists ==
  {<<>>,
   <<GraphEdge(1, "one-to-many")>>,
   <<GraphEdge(1, "one-to-one"), GraphEdge(2, "many-to-many")>>}

\* the characters the statement splitter tells apart
RawChars == {"a", ";", "'", "\"", "-", "\n", "\\"}

RECURSIVE Strings(_, _)
Strings(chars, n) ==
  IF n = 0 THEN {""}
  ELSE LET S == Strings(chars, n - 1)
       IN S \cup {s \o c : s \in S, c \in chars}

RawTexts == Strings(RawChars, MaxRawLen)

\* DDL text as a user pastes it: a CREATE statement per table, with an ID
\* column and an optional referencing column
CreateText(name, refColumn) ==
  "CREATE TABLE " \o name \o " (\n  ID INT NOT NULL"
    \o (IF refColumn = "" THEN "" ELSE ",\n  " \o refColumn \o " INT")
    \o ",\n  PRIMARY KEY (ID)\n);\n"

FkStyles == {"line", "constraint", "lower", "generated"}

\* one ADD FOREIGN KEY statement from src(col) to tgt(ID), in four layouts
FkText(style, src, col, tgt) ==
  LET line == "ALTER TABLE " \o src \o " ADD FOREIGN KEY (" \o col
                \o ") REFERENCES " \o tgt \o "(ID);\n"
  IN CASE style = "line" -> line
       [] style = "constraint" ->
            "ALTER TABLE " \o src \o " ADD CONSTRAINT FK_" \o col
              \o " FOREIGN KEY (" \o col \o ")\tREFERENCES " \o tgt \o " (ID);\n"
       [] style = "lower" -> ToLowerCase(line)
       [] style = "generated" ->
            generateForeignKeyDDL(src, [columns |-> <<col>>,
                                        referencedTable |-> tgt,
                                        referencedColumns |-> <<"ID">>]) \o "\n\n"

\* objects A, B and C with a foreign key from A to B and one from B to C
ChainTexts ==
  {[kind |-> "chain", a |-> s1, b |-> s2,
    text |-> CreateText("A", "B_ID") \o CreateText("B", "C_ID")
               \o CreateText("C", "") \o FkText(s1, "A", "B_ID", "B")
               \o FkText(s2, "B", "C_ID", "C")] : s1, s2 \in FkStyles}

\* a foreign key from A to B in a text that creates at most one of the two;
\* AB is a table whose name only ends like B
UnresolvedCreates == {<<>>, <<"A">>, <<"B">>, <<"AB">>, <<"A", "AB">>, <<"AB", "B">>}

RECURSIVE CreateTexts(_)
CreateTexts(names) ==
  IF names = <<>> THEN ""
  ELSE CreateText(Head(names), "B_ID") \o CreateTexts(Tail(names))

UnresolvedTexts ==
  {[kind |-> "unresolved", a |-> Join(cs, ","), b |-> s,
    text |-> CreateTexts(cs) \o FkText(s, "A", "B_ID", "B")]
     : cs \in UnresolvedCreates, s \in FkStyles}

\* a CREATE statement whose one column has a quoted name made of punctuation
PunctChars == {"a", "+", "(", ")", "\\"}

PunctTexts ==
  {[kind |-> "punct", a |-> n, b |-> "",
    text |-> "CREATE TABLE T (\n  \"" \o n \o "\" INT\n);"]
     : n \in Strings(PunctChars, MaxPunctLen) \ {""}}

\* malformed statements: unbalanced parentheses, unterminated quotes,
\* statements cut short
MalformedTexts ==
  {[kind |-> "malformed", a |-> "", b |-> "", text |-> t] :
     t \in {"CREATE TABLE T (\n  ID INT",
            "CREATE TABLE T (\n  'ID INT\n);",
            "CREATE TABLE \"T (ID INT);",
            "CREATE TABLE (ID INT));",
            "CREATE OR REPLACE VIEW ",
            "ALTER TABLE A ADD FOREIGN KEY (X REFERENCES B(Y)",
            "ALTER TABLE \"A ADD FOREIGN KEY (X) REFERENCES B (Y);",
            "CREATE TABLE A (\n  X INT\n);ALTER TABLE A ADD FOREIGN KEY () REFERENCES A ()"}}

\* texts that create two tables: the same name twice, in two cases, under
\* two schemas, or two different names
TwoTableNames ==
  {<<"A", "A">>, <<"A", "a">>, <<"S1.A", "S2.A">>, <<"S1.A", "S1.B">>}

TwoTableTexts ==
  {[kind |-> "twoTables", a |-> n[1], b |-> n[2],
    text |-> CreateText(n[1], "") \o CreateText(n[2], "")] : n \in TwoTableNames}

\* a table T with a column C and, as a statement of its own, the tag x set
\* on C (a: the column, b: the tag)
ColumnTagTexts ==
  {[kind |-> "columnTag", a |-> "C", b |-> "x",
    text |-> "CREATE TABLE T (\n  ID INT NOT NULL,\n  C VARCHAR\n);\n" \o t] :
     t \in {"ALTER TABLE T MODIFY COLUMN C SET TAG 'x' = 'true';\n",
            "ALTER TABLE T\n  MODIFY COLUMN \"C\" SET TAG 'x' = 'true';\n"}}

\* the most columns a foreign key lists
MaxKeyColumns == 3

KeyDigits == <<"1", "2", "3", "4", "5">>

\* the column lines p1, p2, ... of a table whose columns start with p
RECURSIVE KeyColumnLines(_, _)
KeyColumnLines(p, n) ==
  IF n = 0 THEN ""
  ELSE KeyColumnLines(p, n - 1) \o ",\n  " \o p \o KeyDigits[n] \o " INT"

\* the list p1, p2, ..., pn as a foreign-key statement writes it
RECURSIVE KeyColumnList(_, _, _, _)
KeyColumnList(p, n, quote, sep) ==
  IF n = 0 THEN ""
  ELSE KeyColumnList(p, n - 1, quote, sep) \o (IF n = 1 THEN "" ELSE sep)
         \o quote \o p \o KeyDigits[n] \o quote

KeyTable(name, p) ==
  "CREATE TABLE " \o name \o " (\n  ID INT NOT NULL"
    \o KeyColumnLines(p, MaxKeyColumns) \o "\n);\n"

KeyStyles == {"plain", "quoted", "lower"}

\* tables S (s1..) and T (t1..) and a foreign key of n columns from S to T
\* (a: the layout, b: the source columns listed)
CompositeText(style, n) ==
  CASE style = "plain" ->
         KeyTable("S", "S") \o KeyTable("T", "T")
           \o "ALTER TABLE S ADD FOREIGN KEY (" \o KeyColumnList("S", n, "", ", ")
           \o ") REFERENCES T (" \o KeyColumnList("T", n, "", ", ") \o ");\n"
    [] style = "quoted" ->
         KeyTable("S", "S") \o KeyTable("T", "T")
           \o "ALTER TABLE \"S\" ADD CONSTRAINT FK_S FOREIGN KEY ("
           \o KeyColumnList("S", n, "\"", ",") \o ") REFERENCES \"T\"("
           \o KeyColumnList("T", n, "\"", " , ") \o ");\n"
    [] style = "lower" ->
         KeyTable("s", "s") \o KeyTable("t", "t")
           \o "alter table s add foreign key (" \o KeyColumnList("s", n, "", ", ")
           \o ") references t (" \o KeyColumnList("t", n, "", ", ") \o ");\n"

CompositeTexts ==
  {[kind |-> "composite", a |-> style, b |-> KeyColumnList("S", n, "", ","),
    text |-> CompositeText(style, n)] :
     style \in KeyStyles, n \in 1..MaxKeyColumns}

\* the names a target table is created with: one, two and three parts
QualifiedNames == {"T", "SCH.T", "DB.SCH.T"}

\* a table S with a foreign key to a table created with a qualified name
\* (a: the name in the CREATE statement, b: the name after REFERENCES)
QualifiedTexts ==
  {[kind |-> "qualified", a |-> n, b |-> r,
    text |-> CreateText("S", "B_ID") \o CreateText(n, "")
               \o FkText("line", "S", "B_ID", r)] :
     n \in QualifiedNames, r \in QualifiedNames}

\* comments with no, one, two and three single quotes
CommentWords == {"its", "it's", "a'b'c", "'q'", "x'y'z'w"}

\* the text with every single quote doubled, as a literal holds it
RECURSIVE DoubledQuotes(_)
DoubledQuotes(t) ==
  IF Len(t) <= 1 THEN (IF t = "'" THEN "''" ELSE t)
  ELSE DoubledQuotes(SubSeq(t, 1, Len(t) \div 2))
         \o DoubledQuotes(SubSeq(t, Len(t) \div 2 + 1, Len(t)))

\* a table T whose column, or which itself, carries the comment (a: the
\* comment, b: where it is put)
CommentTexts ==
  {[kind |-> "comment", a |-> w, b |-> "column",
    text |-> "CREATE TABLE T (\n  ID INT COMMENT '" \o DoubledQuotes(w)
               \o "'\n);\n"] : w \in CommentWords}
    \cup
  {[kind |-> "comment", a |-> w, b |-> "table",
    text |-> "CREATE TABLE T (\n  ID INT\n) COMMENT = '" \o DoubledQuotes(w)
               \o "';\n"] : w \in CommentWords}

\* statements that are neither a CREATE of one of the five kinds nor an
\* ALTER TABLE ... ADD FOREIGN KEY; some hold such words in a literal, a
\* comment or a clause
OtherStatements ==
  {"INSERT INTO A VALUES (1, 2);\n",
   "DROP TABLE A;\n",
   "GRANT SELECT ON A TO R;\n",
   "CREATE INDEX I ON A (ID);\n",
   "INSERT INTO LOG VALUES ('CREATE TABLE X (ID INT)');\n",
   "-- CREATE TABLE A is kept\nGRANT SELECT ON A TO R;\n",
   "COMMENT ON TABLE A IS 'ALTER TABLE A ADD FOREIGN KEY (B_ID) REFERENCES B (ID)';\n",
   "ALTER TABLE A ADD COLUMN N INT; -- was: ADD FOREIGN KEY (B_ID) REFERENCES B (ID)\n"}

\* tables A and B and one other statement, after them or between them
\* (a: the statement, b: its place)
OtherStatementTexts ==
  {[kind |-> "other", a |-> st, b |-> "last",
    text |-> CreateText("A", "B_ID") \o CreateText("B", "") \o st] :
     st \in OtherStatements}
    \cup
  {[kind |-> "other", a |-> st, b |-> "between",
    text |-> CreateText("A", "B_ID") \o st \o CreateText("B", "")] :
     st \in OtherStatements}

\* the statements of one text in every order: the CREATE statements of A
\* and B and the foreign key F from A(B_ID) to B(ID), F on one line or with a
\* constraint name (a: the order, b: the layout of F)
StatementOrders ==
  {<<"A", "B", "F">>, <<"B", "A", "F">>, <<"A", "F", "B">>,
   <<"B", "F", "A">>, <<"F", "A", "B">>, <<"F", "B", "A">>}

OrderedStatement(name, style) ==
  CASE name = "A" -> CreateText("A", "B_ID")
    [] name = "B" -> CreateText("B", "")
    [] name = "F" -> FkText(style, "A", "B_ID", "B")

OrderTexts ==
  {[kind |-> "order", a |-> Join(o, ","), b |-> s,
    text |-> OrderedStatement(o[1], s) \o OrderedStatement(o[2], s)
               \o OrderedStatement(o[3], s)]
     : o \in StatementOrders, s \in {"line", "constraint"}}

\* tables A (ID, B_ID) and B (ID) and a foreign-key statement from A to B
\* that lists a source column A has, in either case, or one A has not
\* (a: the listed source column, b: whether A has it)
ListedSourceColumns ==
  {<<"B_ID", "present">>, <<"b_id", "present">>, <<"X_ID", "absent">>,
   <<"B", "absent">>}

SourceColumnTexts ==
  {[kind |-> "sourceColumn", a |-> c[1], b |-> c[2],
    text |-> CreateText("A", "B_ID") \o CreateText("B", "")
               \o FkText("line", "A", c[1], "B")] : c \in ListedSourceColumns}

PastedTexts ==
  {[kind |-> "raw", a |-> "", b |-> "", text |-> t] : t \in RawTexts}
    \cup ChainTexts \cup UnresolvedTexts \cup PunctTexts \cup MalformedTexts
    \cup TwoTableTexts \cup ColumnTagTexts \cup CompositeTexts
    \cup QualifiedTexts \cup CommentTexts \cup OtherStatementTexts
    \cup OrderTexts \cup SourceColumnTexts

\* a test of a manifest: a bare string, or an object with one key
StringTest(name) ==
  [type |-> "string", key |-> name, to |-> "", field |-> "", from |-> "",
   column_name |-> ""]

ObjectTest(key, from, to, column_name, field) ==
  [type |-> "object", key |-> key, to |-> to, field |-> field, from |-> from,
   column_name |-> column_name]

DbtColumn(name, data_type, description, tags, tests) ==
  [name |-> name, data_type |-> data_type, description |-> description,
   tags |-> tags, tests |-> tests]

DbtModel(name, materialized, description, tags, columns, raw_sql) ==
  [name |-> name, materialized |-> materialized, description |-> description,
   tags |-> tags, columns |-> columns, raw_sql |-> raw_sql]

DbtTable(name, description, tags, columns) ==
  [name |-> name, description |-> description, tags |-> tags, columns |-> columns]

DbtSource(name, description, tags, hasTables, tables) ==
  [name |-> name, description |-> description, tags |-> tags,
   hasTables |-> hasTables, tables |-> tables]

\* a document of the manifest; isNull is an empty document, which the
\* loader hands back as null
Document(models, sources, tests) ==
  [isNull |-> FALSE, models |-> models, sources |-> sources, tests |-> tests,
   raw_sql |-> ""]

NullDocument ==
  [isNull |-> TRUE, models |-> <<>>, sources |-> <<>>, tests |-> <<>>,
   raw_sql |-> ""]

CustomersModel ==
  DbtModel("customers", "view", "", <<>>,
           << DbtColumn("id", "INTEGER", "", <<>>,
                        <<StringTest("unique"), StringTest("not_null")>>),
              DbtColumn("name", "", "full name", <<"pii">>, <<>>) >>,
           "")

OrdersModel ==
  DbtModel("orders", "incremental", "all orders", <<"core">>,
           << DbtColumn("id", "", "", <<>>,
                        <<ObjectTest("primary_key", "", "", "", "")>>),
              DbtColumn("customer_id", "INTEGER", "", <<>>,
                        <<ObjectTest("relationships", "", "ref('customers')", "", "id"),
                          ObjectTest("not_null", "", "", "", "")>>),
              DbtColumn("store_id", "INTEGER", "", <<>>,
                        <<ObjectTest("relationships", "",
                                     "source('raw', 'stores')", "", "id")>>),
              DbtColumn("region_id", "INTEGER", "", <<>>,
                        <<ObjectTest("foreign_key", "", "", "", ""),
                          StringTest("primary_key")>>),
              DbtColumn("note", "", "", <<>>, <<StringTest("relationships")>>) >>,
           "select * from {{ ref('customers') }} c join {{ source('raw','stores') }} s"
             \o " left join {{ ref( \"customers\" ) }} d")

RawSource ==
  DbtSource("raw", "raw data", <<"landing">>, TRUE,
            << DbtTable("stores", "", <<"geo">>,
                        << DbtColumn("id", "INTEGER", "", <<>>,
                                     <<StringTest("unique")>>) >>) >>)

EmptySource == DbtSource("empty", "", <<>>, FALSE, <<>>)

\* a model without tests whose SQL body names customers twice, a table of a
\* source once and an undeclared model once
ReportModel ==
  DbtModel("report", "view", "", <<>>,
           << DbtColumn("customer_id", "INTEGER", "", <<>>, <<>>) >>,
           "select * from {{ ref('customers') }} a, {{ ref('customers') }} b, "
             \o "{{ source('raw', 'stores') }} s, {{ ref('missing') }} m")

\* a model without SQL body whose one reference is a relationships test
\* that points at a table of a source
PaymentsModel ==
  DbtModel("payments", "table", "", <<>>,
           << DbtColumn("store_id", "INTEGER", "", <<>>,
                        <<ObjectTest("relationships", "",
                                     "source('raw', 'stores')", "", "id")>>) >>,
           "")

SchemaTests ==
  << StringTest("unique"),
     ObjectTest("relationships", "ref('orders')", "ref('customers')",
                "customer_id", "id") >>

\* the models orders and customers, whose column customer_id refers to
\* customers, in either order, in one document or in two
ModelOrders ==
  { <<Document(<<CustomersModel, OrdersModel>>, <<>>, <<>>)>>,
    <<Document(<<OrdersModel, CustomersModel>>, <<>>, <<>>)>>,
    <<Document(<<OrdersModel>>, <<>>, <<>>),
      Document(<<CustomersModel>>, <<>>, <<>>)>>,
    <<Document(<<CustomersModel>>, <<>>, <<>>),
      Document(<<OrdersModel>>, <<>>, <<>>)>> }

DocumentLists ==
  ModelOrders \cup
  { <<>>,
    <<Document(<<CustomersModel, OrdersModel>>, <<>>, <<>>)>>,
    <<Document(<<OrdersModel>>, <<RawSource, EmptySource>>, <<>>),
      Document(<<CustomersModel>>, <<>>, SchemaTests)>>,
    <<Document(<<>>, <<RawSource>>, <<>>),
      Document(<<OrdersModel, CustomersModel>>, <<>>, <<>>)>>,
    <<Document(<<PaymentsModel>>, <<RawSource>>, <<>>)>>,
    <<Document(<<CustomersModel>>, <<>>, <<>>),
      Document(<<CustomersModel>>, <<>>, <<>>)>>,
    <<Document(<<CustomersModel, ReportModel>>, <<RawSource>>, <<>>)>>,
    <<NullDocument>>,
    <<Document(<<CustomersModel>>, <<>>, <<>>), NullDocument>> }

\* a manifest text, as what the loader makes of it: a text with a syntax
\* error makes loadAll and load throw; load is given an outcome of its own
\* for the texts loadAll fails on
Manifests ==
  {[loadAll |-> "ok", load |-> "ok", docs |-> d] : d \in DocumentLists}
    \cup {[loadAll |-> "throws", load |-> l, docs |-> d] :
            l \in {"ok", "throws"}, d \in DocumentLists}

\* -------------------------------------------------------------------- state

VARIABLES
  pc,               \* where the caller is: idle, generated, scan, pass1, pass2,
                    \* done, thrown, yamlPass1, yamlPass2, yamlDone, yamlThrown
  graph,            \* the nodes handed to new DDLGenerator
  relationships,    \* the edges handed to new DDLGenerator
  ddlOut,           \* the text generateSnowflakeDDL returned
  origin,           \* which input the parser was given
  ddl,              \* DDLParser.ddl
  i,                \* splitStatements: the loop index (1-based)
  inQuote,          \* splitStatements: inQuote
  quoteChar,        \* splitStatements: quoteChar
  inComment,        \* splitStatements: inComment
  currentStatement, \* splitStatements: currentStatement
  statements,       \* splitStatements: statements, then parse's statements
  idx,              \* parse: the statement the pass is at
  nodes,            \* DDLParser.nodes
  edges,            \* DDLParser.edges
  tableNames,       \* DDLParser.tableNames
  uuid,             \* the number of ids uuidv4 has handed out
  yaml,             \* YAMLParser.yaml
  documents,        \* YAMLParser.parse: documents
  modelMap,         \* YAMLParser.modelMap
  sourceMap,        \* YAMLParser.sourceMap
  calls,            \* the calls of parse() begun on the parser object
  firstResult       \* what the first call's result held when it was returned

scanVars == <<i, inQuote, quoteChar, inComment, currentStatement>>

parserVars == <<idx, nodes, edges, tableNames, uuid>>

yamlVars == <<yaml, documents, modelMap, sourceMap>>

callVars == <<calls, firstResult>>

vars ==
  <<pc, graph, relationships, ddlOut, origin, ddl, scanVars, statements, parserVars, yamlVars,
    callVars>>

\* the calls of parse() made on one parser object
MaxCalls == 2

EmptyMap == [k \in {} |-> 0]

NoOrigin == [kind |-> "", a |-> "", b |-> "", text |-> ""]

NoManifest == [loadAll |-> "ok", load |-> "ok", docs |-> <<>>]

NoResult == [nodes |-> <<>>, edges |-> <<>>]

Init ==
  /\ pc = "idle"
  /\ graph = <<>>
  /\ relationships = <<>>
  /\ ddlOut = ""
  /\ origin = NoOrigin
  /\ ddl = ""
  /\ i = 1
  /\ inQuote = FALSE
  /\ quoteChar = ""
  /\ inComment = FALSE
  /\ currentStatement = ""
  /\ statements = <<>>
  /\ idx = 1
  /\ nodes = <<>>
  /\ edges = <<>>
  /\ tableNames = EmptyMap
  /\ uuid = 0
  /\ yaml = NoManifest
  /\ documents = <<>>
  /\ modelMap = EmptyMap
  /\ sourceMap = EmptyMap
  /\ calls = 0
  /\ firstResult = NoResult

\* new DDLGenerator(nodes, edges).generateSnowflakeDDL()
Generate ==
  /\ pc = "idle"
  /\ \E g \in Graphs : \E r \in RelationshipLists :
       /\ graph' = g
       /\ relationships' = r
       /\ ddlOut' = generateSnowflakeDDL(g, r)
  /\ pc' = "generated"
  /\ UNCHANGED <<origin, ddl, scanVars, statements, parserVars, yamlVars>>
  /\ UNCHANGED callVars

\* new DDLParser(text).parse() enters splitStatements; the generator and
\* the edges it was given are gone by then
StartParse(input) ==
  /\ origin' = input
  /\ relationships' = <<>>
  /\ ddl' = input.text
  /\ calls' = 1
  /\ firstResult' = NoResult
  /\ pc' = "scan"
  /\ i' = 1
  /\ inQuote' = FALSE
  /\ quoteChar' = ""
  /\ inComment' = FALSE
  /\ currentStatement' = ""
  /\ statements' = <<>>
  /\ UNCHANGED <<graph, ddlOut, parserVars, yamlVars>>

\* the generated text is parsed back
ImportGenerated ==
  /\ pc = "generated"
  /\ StartParse([kind |-> "generated", a |-> "", b |-> "", text |-> ddlOut])

\* pasted text is parsed
PasteDDL ==
  /\ pc = "idle"
  /\ \E input \in PastedTexts : StartParse(input)

\* a splitter that forgets the quote state when it meets a semicolon
ScanStepIgnoringQuotes(text, k, q, qc, c, cur, stmts) ==
  LET char == Ch(text, k)
      nextChar == Ch(text, k + 1)
      c1 == c \/ (~q /\ char = "-" /\ nextChar = "-")
      c2 == c1 /\ char \notin LineEnds
      toggles == char \in {"'", "\""} /\ (k = 1 \/ Ch(text, k - 1) # "\\")
      q2 == IF toggles /\ ~q THEN TRUE
            ELSE IF toggles /\ char = qc THEN FALSE
            ELSE q
      qc2 == IF toggles /\ ~q THEN char ELSE qc
      splits == char = ";"
  IN IF c2
     THEN [inQuote |-> q, quoteChar |-> qc, inComment |-> TRUE,
           currentStatement |-> cur \o char, statements |-> stmts]
     ELSE [inQuote |-> q2, quoteChar |-> qc2, inComment |-> FALSE,
           currentStatement |-> IF splits THEN "" ELSE cur \o char,
           statements |-> IF splits /\ Trim(cur) # ""
                          THEN Append(stmts, Trim(cur)) ELSE stmts]

\* what one pass of the loop of splitStatements does to its locals
ScanStep(text, k, q, qc, c, cur, stmts) ==
  LET char == Ch(text, k)
      nextChar == Ch(text, k + 1)
      c1 == c \/ (~q /\ char = "-" /\ nextChar = "-")
      c2 == c1 /\ char \notin LineEnds
      toggles == char \in {"'", "\""} /\ (k = 1 \/ Ch(text, k - 1) # "\\")
      q2 == IF toggles /\ ~q THEN TRUE
            ELSE IF toggles /\ char = qc THEN FALSE
            ELSE q
      qc2 == IF toggles /\ ~q THEN char ELSE qc
      splits == char = ";" /\ ~q2
  IN IF c2
     THEN [inQuote |-> q, quoteChar |-> qc, inComment |-> TRUE,
           currentStatement |-> cur \o char, statements |-> stmts]
     ELSE [inQuote |-> q2, quoteChar |-> qc2, inComment |-> FALSE,
           currentStatement |-> IF splits THEN "" ELSE cur \o char,
           statements |-> IF splits /\ Trim(cur) # ""
                          THEN Append(stmts, Trim(cur)) ELSE stmts]

ScanChar ==
  /\ pc = "scan"
  /\ i <= Len(ddl)
  /\ LET r == ScanStep(ddl, i, inQuote, quoteChar, inComment,
                       currentStatement, statements)
     IN /\ inQuote' = r.inQuote
        /\ quoteChar' = r.quoteChar
        /\ inComment' = r.inComment
        /\ currentStatement' = r.currentStatement
        /\ statements' = r.statements
  /\ i' = i + 1
  /\ UNCHANGED <<pc, graph, relationships, ddlOut, origin, ddl, parserVars, yamlVars>>
  /\ UNCHANGED callVars

\* after the loop: the last statement, then parse starts its first pass
EndScan ==
  /\ pc = "scan"
  /\ i > Len(ddl)
  /\ statements' = IF Trim(currentStatement) # ""
                   THEN Append(statements, Trim(currentStatement))
                   ELSE statements
  /\ pc' = "pass1"
  /\ idx' = 1
  /\ UNCHANGED <<graph, relationships, ddlOut, origin, ddl, scanVars, nodes, edges, tableNames, uuid, yamlVars>>
  /\ UNCHANGED callVars

\* a parser with a single loop: a foreign-key statement is resolved where
\* it stands, against the tables created so far
SinglePass ==
  /\ pc = "pass1"
  /\ idx <= Len(statements)
  /\ LET created == isCreateTableStatement(statements[idx])
         r == IF created
              THEN parseCreateTable(statements[idx], nodes, tableNames, uuid)
              ELSE [threw |-> FALSE, nodes |-> nodes,
                    tableNames |-> tableNames, uuid |-> uuid]
         f == IF ~created /\ isAlterTableAddForeignKey(statements[idx])
              THEN parseForeignKeyConstraint(statements[idx], nodes, edges,
                                             tableNames, uuid)
              ELSE [nodes |-> r.nodes, edges |-> edges, uuid |-> r.uuid]
     IN /\ nodes' = f.nodes
        /\ edges' = f.edges
        /\ tableNames' = r.tableNames
        /\ uuid' = f.uuid
        /\ pc' = IF r.threw THEN "thrown" ELSE "pass1"
        /\ idx' = IF r.threw THEN idx ELSE idx + 1
  /\ UNCHANGED <<graph, relationships, ddlOut, origin, ddl, scanVars, statements, yamlVars>>
  /\ UNCHANGED callVars

\* first pass, one statement
CreatePass ==
  /\ pc = "pass1"
  /\ idx <= Len(statements)
  /\ LET r == IF isCreateTableStatement(statements[idx])
              THEN parseCreateTable(statements[idx], nodes, tableNames, uuid)
              ELSE [threw |-> FALSE, nodes |-> nodes,
                    tableNames |-> tableNames, uuid |-> uuid]
     IN /\ nodes' = r.nodes
        /\ tableNames' = r.tableNames
        /\ uuid' = r.uuid
        /\ pc' = IF r.threw THEN "thrown" ELSE "pass1"
        /\ idx' = IF r.threw THEN idx ELSE idx + 1
  /\ UNCHANGED <<graph, relationships, ddlOut, origin, ddl, scanVars, statements, edges, yamlVars>>
  /\ UNCHANGED callVars

EndCreatePass ==
  /\ pc = "pass1"
  /\ idx > Len(statements)
  /\ pc' = "pass2"
  /\ idx' = 1
  /\ UNCHANGED <<graph, relationships, ddlOut, origin, ddl, scanVars, statements, nodes, edges, tableNames, uuid, yamlVars>>
  /\ UNCHANGED callVars

\* second pass, one statement
ForeignKeyPass ==
  /\ pc = "pass2"
  /\ idx <= Len(statements)
  /\ LET r == IF isAlterTableAddForeignKey(statements[idx])
              THEN parseForeignKeyConstraint(statements[idx], nodes, edges,
                                             tableNames, uuid)
              ELSE [nodes |-> nodes, edges |-> edges, uuid |-> uuid]
     IN /\ nodes' = r.nodes
        /\ edges' = r.edges
        /\ uuid' = r.uuid
  /\ idx' = idx + 1
  /\ UNCHANGED <<pc, graph, relationships, ddlOut, origin, ddl, scanVars, statements, tableNames, yamlVars>>
  /\ UNCHANGED callVars

\* parse returns { nodes, edges }: the parser's own arrays
Return ==
  /\ pc = "pass2"
  /\ idx > Len(statements)
  /\ pc' = "done"
  /\ firstResult' = IF calls = 1 THEN [nodes |-> nodes, edges |-> edges]
                    ELSE firstResult
  /\ UNCHANGED <<graph, relationships, ddlOut, origin, ddl, scanVars, statements, parserVars,
                 yamlVars, calls>>

\* parse() is called again on the DDLParser that has returned: the fields
\* nodes, edges and tableNames are what the first call left (the texts
\* parsed twice are the pasted ones; to the parser the text generate wrote
\* is one more text)
ParseAgain ==
  /\ pc = "done"
  /\ calls < MaxCalls
  /\ origin.kind # "generated"
  /\ calls' = calls + 1
  /\ pc' = "scan"
  /\ i' = 1
  /\ inQuote' = FALSE
  /\ quoteChar' = ""
  /\ inComment' = FALSE
  /\ currentStatement' = ""
  /\ statements' = <<>>
  /\ UNCHANGED <<graph, relationships, ddlOut, origin, ddl, parserVars, yamlVars, firstResult>>

\* the state the passes of YAMLParser.parse thread through
ParserState ==
  [nodes |-> nodes, edges |-> edges, modelMap |-> modelMap,
   sourceMap |-> sourceMap, uuid |-> uuid]

\* new YAMLParser(text).parse() up to the end of splitYAMLDocuments
PasteManifest ==
  /\ pc = "idle"
  /\ \E content \in Manifests :
       /\ yaml' = content
       /\ documents' = splitYAMLDocuments(content)
  /\ pc' = "yamlPass1"
  /\ idx' = 1
  /\ calls' = 1
  /\ firstResult' = NoResult
  /\ UNCHANGED <<graph, relationships, ddlOut, origin, ddl, scanVars, statements, nodes, edges,
                 tableNames, uuid, modelMap, sourceMap>>

\* first pass, one document; reading doc.models of a null document throws,
\* which the catch of parse turns into 'Failed to parse YAML content'
ModelPass ==
  /\ pc = "yamlPass1"
  /\ idx <= Len(documents)
  /\ IF documents[idx].isNull
     THEN /\ pc' = "yamlThrown"
          /\ UNCHANGED <<idx, nodes, modelMap, sourceMap, uuid>>
     ELSE LET r == FirstPassOfDocument(documents[idx], ParserState)
          IN /\ nodes' = r.nodes
             /\ modelMap' = r.modelMap
             /\ sourceMap' = r.sourceMap
             /\ uuid' = r.uuid
             /\ idx' = idx + 1
             /\ pc' = pc
  /\ UNCHANGED <<graph, relationships, ddlOut, origin, ddl, scanVars, statements, edges,
                 tableNames, yaml, documents>>
  /\ UNCHANGED callVars

EndModelPass ==
  /\ pc = "yamlPass1"
  /\ idx > Len(documents)
  /\ pc' = "yamlPass2"
  /\ idx' = 1
  /\ UNCHANGED <<graph, relationships, ddlOut, origin, ddl, scanVars, statements, nodes, edges,
                 tableNames, uuid, yamlVars>>
  /\ UNCHANGED callVars

\* second pass, one document
RelationshipPass ==
  /\ pc = "yamlPass2"
  /\ idx <= Len(documents)
  /\ LET r == SecondPassOfDocument(documents[idx], ParserState)
     IN /\ nodes' = r.nodes
        /\ edges' = r.edges
        /\ uuid' = r.uuid
  /\ idx' = idx + 1
  /\ UNCHANGED <<pc, graph, relationships, ddlOut, origin, ddl, scanVars, statements,
                 tableNames, yamlVars>>
  /\ UNCHANGED callVars

\* YAMLParser.parse returns { nodes, edges }
ManifestReturn ==
  /\ pc = "yamlPass2"
  /\ idx > Len(documents)
  /\ pc' = "yamlDone"
  /\ firstResult' = IF calls = 1 THEN [nodes |-> nodes, edges |-> edges]
                    ELSE firstResult
  /\ UNCHANGED <<graph, relationships, ddlOut, origin, ddl, scanVars, statements, parserVars,
                 yamlVars, calls>>

\* parse() is called again on the YAMLParser that has returned: the fields
\* nodes, edges, modelMap and sourceMap are what the first call left
ManifestAgain ==
  /\ pc = "yamlDone"
  /\ calls < MaxCalls
  /\ calls' = calls + 1
  /\ documents' = splitYAMLDocuments(yaml)
  /\ pc' = "yamlPass1"
  /\ idx' = 1
  /\ UNCHANGED <<graph, relationships, ddlOut, origin, ddl, scanVars, statements, nodes, edges,
                 tableNames, uuid, yaml, modelMap, sourceMap, firstResult>>

Next ==
  \/ Generate
  \/ ImportGenerated
  \/ PasteDDL
  \/ ScanChar
  \/ EndScan
  \/ CreatePass
  \/ EndCreatePass
  \/ ForeignKeyPass
  \/ Return
  \/ ParseAgain
  \/ PasteManifest
  \/ ModelPass
  \/ EndModelPass
  \/ RelationshipPass
  \/ ManifestReturn
  \/ ManifestAgain

Spec == Init /\ [][Next]_vars

\* ------------------------------------------------------------------- claims

\* the first call of parse on a parser object
FirstCall == calls = 1

\* a new DDLParser has parsed and returned the graph of a text that generate
\* produced
RoundTrip == pc = "done" /\ origin.kind = "generated" /\ FirstCall

SameColumn(c, d) ==
  /\ c.name = d.name
  /\ c.dataType = d.dataType
  /\ c.isNullable = d.isNullable
  /\ c.isPrimaryKey = d.isPrimaryKey
  /\ c.comment = d.comment
  /\ c.tags = d.tags

SameObject(n, m) ==
  /\ n.tableType = m.tableType
  /\ n.comment = m.comment
  /\ n.tags = m.tags
  /\ Len(n.columns) = Len(m.columns)
  /\ \A c \in 1..Len(n.columns) : SameColumn(n.columns[c], m.columns[c])

\* C1: parsing the text generated from a graph gives back as many objects,
\* in the same order, each with the same kind, comment and tags and the same
\* columns (name, data type, isNullable, isPrimaryKey, comment, tags)
C1_RoundTripObjects ==
  RoundTrip =>
    /\ Len(nodes) = Len(graph)
    /\ \A k \in 1..Len(graph) : SameObject(graph[k], nodes[k])

\* every foreign-key column of g names an object and a column of g
ReferencesResolve(g) ==
  \A k \in 1..Len(g) : \A c \in 1..Len(g[k].columns) :
    LET col == g[k].columns[c] IN
    col.isForeignKey =>
      \E t \in 1..Len(g) :
        /\ g[t].label = col.referencedTable
        /\ \E d \in 1..Len(g[t].columns) :
             g[t].columns[d].name = col.referencedColumn

\* the foreign-key columns of g, one relationship each
ForeignKeyCount(g) ==
  Cardinality({<<k, c>> \in (1..Len(g)) \X (1..3) :
                 c <= Len(g[k].columns) /\ g[k].columns[c].isForeignKey})

SameReference(c, d) ==
  /\ c.isForeignKey = d.isForeignKey
  /\ c.isForeignKey =>
       /\ c.referencedTable = d.referencedTable
       /\ c.referencedColumn = d.referencedColumn

\* C2: parsing the text generated from a graph whose references all resolve
\* flags the same foreign-key columns with the same referenced table and
\* column, and returns one relationship per foreign key of the graph
C2_RoundTripForeignKeys ==
  (RoundTrip /\ ReferencesResolve(graph)) =>
    /\ Len(nodes) = Len(graph)
    /\ \A k \in 1..Len(graph) :
         /\ Len(nodes[k].columns) = Len(graph[k].columns)
         /\ \A c \in 1..Len(graph[k].columns) :
              SameReference(graph[k].columns[c], nodes[k].columns[c])
    /\ Len(edges) = ForeignKeyCount(graph)

\* C3: a step of the scanner ends the current statement exactly when the
\* character is a semicolon read outside a quoted string and outside a line
\* comment; the statement it ends is stored unless it is blank
C3_SplitOutsideQuotesAndComments ==
  [][ScanChar =>
       LET semicolon == Ch(ddl, i) = ";"
           outside == ~inQuote /\ ~inComment
       IN /\ (currentStatement' = "") <=> (semicolon /\ outside)
          /\ statements' =
               IF semicolon /\ outside /\ Trim(currentStatement) # ""
               THEN Append(statements, Trim(currentStatement))
               ELSE statements]_vars

\* a text whose first semicolon split a statement off and whose second one,
\* read inside a quoted string, did not
C3_Witness ==
  /\ pc = "scan"
  /\ i > Len(ddl)
  /\ Len(statements) = 1
  /\ inQuote
  /\ Includes(currentStatement, ";")

\* C4: parse raises no error, whatever the text
C4_ParseNeverThrows == pc # "thrown"

\* the statements of a generated text, each without its closing ";"
OutputStatements(text) ==
  LET parts == Split(text, ";\n\n") IN SubSeq(parts, 1, Len(parts) - 1)

StartsWith(s, t) == Len(t) <= Len(s) /\ SubSeq(s, 1, Len(t)) = t

\* the foreign keys of a graph in object order, then column order
RECURSIVE ForeignKeysInOrder(_)
ForeignKeysInOrder(g) ==
  IF g = <<>> THEN <<>>
  ELSE LET Key(col) == [table |-> Head(g).label, column |-> col.name]
       IN SeqMap(Key, SelectIdx(Head(g).columns, IsFkColumn))
            \o ForeignKeysInOrder(Tail(g))

IsCreateOf(stmt, node) ==
  /\ StartsWith(stmt, "CREATE ")
  /\ Includes(stmt, " " \o formatIdentifier(node.label) \o " (\n")

IsForeignKeyOf(stmt, fk) ==
  /\ StartsWith(stmt, "ALTER TABLE " \o formatIdentifier(fk.table) \o "\n")
  /\ Includes(stmt, "FOREIGN KEY (" \o formatIdentifier(fk.column) \o ")")

\* C6: the text generate returns holds the CREATE statement of every object
\* in object order, and after all of them the foreign-key statements in
\* object order, then column order
C6_OutputOrdering ==
  pc = "generated" =>
    LET out == OutputStatements(ddlOut)
        fks == ForeignKeysInOrder(graph)
    IN /\ Len(out) = Len(graph) + Len(fks)
       /\ \A k \in 1..Len(graph) : IsCreateOf(out[k], graph[k])
       /\ \A j \in 1..Len(fks) : IsForeignKeyOf(out[Len(graph) + j], fks[j])

\* a text generated from two objects that both hold a foreign key
C6_Witness ==
  /\ pc = "generated"
  /\ Len(graph) = 2
  /\ \A k \in 1..2 : SelectIdx(graph[k].columns, IsFkColumn) # <<>>

\* a name that generate has to quote: it has a space or is a reserved word
NeedsQuotes(name) == Includes(name, " ") \/ isReservedWord(name)

Occurrences(s, t) ==
  Cardinality({p \in 1..(Len(s) - Len(t) + 1) :
                 SubSeq(s, p, p + Len(t) - 1) = t})

PrimaryKeyNames(node) ==
  SeqMap(ColumnName, SelectIdx(node.columns, IsPkColumn))

\* C8: for an object with two or more primary-key columns the text holds one
\* PRIMARY KEY constraint that lists them in column order, and parsing the
\* text flags exactly those columns
C8_CompositePrimaryKey ==
  RoundTrip =>
    \A k \in 1..Len(graph) :
      Len(PrimaryKeyNames(graph[k])) >= 2 =>
        /\ Occurrences(statements[k], "PRIMARY KEY") = 1
        /\ Includes(statements[k],
             ",\n  PRIMARY KEY ("
               \o Join(SeqMap(formatIdentifier, PrimaryKeyNames(graph[k])), ", ")
               \o ")\n)")
        /\ Len(nodes[k].columns) = Len(graph[k].columns)
        /\ \A c \in 1..Len(graph[k].columns) :
             nodes[k].columns[c].isPrimaryKey = graph[k].columns[c].isPrimaryKey

\* the round trip of an object with two primary-key columns, one of them
\* quoted, and a third column outside the key
C8_Witness ==
  /\ RoundTrip
  /\ graph[1].label = "Order Items"
  /\ nodes[1].columns[1].isPrimaryKey
  /\ nodes[1].columns[2].isPrimaryKey
  /\ ~nodes[1].columns[3].isPrimaryKey

NoForeignKeyFlag(node) ==
  \A c \in 1..Len(node.columns) : ~node.columns[c].isForeignKey

\* C9: a text that creates A, B and C with a foreign key from A to B and one
\* from B to C parses to the two relationships A -> B and B -> C, with the
\* referencing columns of A and B flagged and pointed at B and C, and no
\* column of C flagged
C9_ForeignKeyChain ==
  (pc = "done" /\ origin.kind = "chain") =>
    /\ Len(nodes) = 3
    /\ Len(edges) = 2
    /\ {<<edges[e].source, edges[e].target>> : e \in 1..Len(edges)}
         = {<<nodes[1].id, nodes[2].id>>, <<nodes[2].id, nodes[3].id>>}
    /\ nodes[1].columns[2].isForeignKey
    /\ nodes[1].columns[2].referencedTable = "B"
    /\ nodes[2].columns[2].isForeignKey
    /\ nodes[2].columns[2].referencedTable = "C"
    /\ NoForeignKeyFlag(nodes[3])

\* the tables an "unresolved" text creates
CreatedNames == IF origin.a = "" THEN <<>> ELSE Split(origin.a, ",")

\* C10: a foreign-key statement from A to B in a text that does not create
\* both A and B raises no error, and the graph returned has no relationship,
\* no foreign-key flag and no object besides the created ones
C10_UnresolvableForeignKey ==
  (origin.kind = "unresolved"
     /\ ~(InSeq("A", CreatedNames) /\ InSeq("B", CreatedNames))) =>
    /\ pc # "thrown"
    /\ (pc = "done" /\ FirstCall) =>
         /\ edges = <<>>
         /\ \A k \in 1..Len(nodes) : NoForeignKeyFlag(nodes[k])
         /\ Len(nodes) = Len(CreatedNames)
         /\ \A k \in 1..Len(nodes) : nodes[k].label = CreatedNames[k]

\* the statement was classified and its source resolved, its target did not,
\* although a created table has a name that ends like the target's
C10_Witness ==
  /\ pc = "done"
  /\ origin.kind = "unresolved"
  /\ origin.b = "line"
  /\ origin.a = "A,AB"
  /\ Len(nodes) = 2

\* the loader could read the text neither as a stream nor as one document
Unloadable(content) == content.loadAll = "throws" /\ content.load = "throws"

\* C5: when the manifest loads neither as a stream of documents nor as a
\* single document, parse fails: it never returns a graph
C5_SyntaxErrorIsFatal == Unloadable(yaml) => pc # "yamlDone"

\* the tests list holds one of the names, as a bare string or as the key of
\* an object
HasTest(tests, names) == \E t \in 1..Len(tests) : tests[t].key \in names

\* the tests list holds an object with one of the names as key
HasObjectTest(tests, names) ==
  \E t \in 1..Len(tests) : tests[t].type = "object" /\ tests[t].key \in names

FlagsFollowTests(declared, column) ==
  /\ column.isPrimaryKey <=> HasTest(declared.tests, {"unique", "primary_key"})
  /\ HasObjectTest(declared.tests, {"relationships", "foreign_key"})
       => column.isForeignKey
  /\ column.isNullable <=> ~HasTest(declared.tests, {"not_null"})

\* the object of the result that a declared model became
IsObjectOfModel(node, model) ==
  /\ node.label = model.name
  /\ Len(node.columns) = Len(model.columns)

\* C11: in the graph parse returns for a manifest, every column of every
\* model is a primary key exactly when its tests hold unique or primary_key,
\* is a foreign key when they hold a relationships or foreign_key object,
\* and is nullable exactly when they do not hold not_null
C11_ManifestFlags ==
  pc = "yamlDone" =>
    \A d \in 1..Len(documents) : \A m \in 1..Len(documents[d].models) :
      documents[d].models[m].name # "" =>
        \E k \in 1..Len(nodes) :
          /\ IsObjectOfModel(nodes[k], documents[d].models[m])
          /\ \A c \in 1..Len(nodes[k].columns) :
               FlagsFollowTests(documents[d].models[m].columns[c],
                                nodes[k].columns[c])

\* a manifest came back with the column tested ['unique', 'not_null'] as a
\* primary key that is not nullable, next to a model whose columns carry
\* object tests
C11_Witness ==
  /\ pc = "yamlDone"
  /\ \E k \in 1..Len(nodes) :
       /\ nodes[k].label = "customers"
       /\ nodes[k].columns[1].isPrimaryKey
       /\ ~nodes[k].columns[1].isNullable
       /\ nodes[k].columns[2].isNullable
  /\ \E k \in 1..Len(nodes) :
       /\ nodes[k].label = "orders"
       /\ nodes[k].columns[4].isForeignKey
       /\ ~nodes[k].columns[5].isForeignKey

\* the column line the claim describes
ExpectedColumnLine(col) ==
  "  " \o formatIdentifier(col.name) \o " " \o col.dataType
    \o (IF col.isNullable THEN "" ELSE " NOT NULL")

\* the lines between the parentheses of a CREATE statement of the output
LinesOfCreate(stmt) ==
  Split(SubSeq(stmt, IndexOf(stmt, " (\n") + 3, Len(stmt) - 2), ",\n")

\* the lines the claim describes for an object: its columns, then the
\* PRIMARY KEY clause when a column is a primary key
ExpectedLines(node) ==
  SeqMap(ExpectedColumnLine, node.columns)
    \o (IF \E c \in 1..Len(node.columns) : node.columns[c].isPrimaryKey
        THEN <<"  PRIMARY KEY ("
                 \o Join(SeqMap(formatIdentifier, PrimaryKeyNames(node)), ", ")
                 \o ")">>
        ELSE <<>>)

CustomersText ==
  "CREATE OR REPLACE TABLE CUSTOMERS (\n  ID INTEGER NOT NULL,\n  NAME VARCHAR,\n"
    \o "  PRIMARY KEY (ID)\n);\n\n"

\* C12: the CREATE statement of every object holds one line per column, in
\* column order, made of the formatted name, the data type as given and
\* NOT NULL exactly for a column that is not nullable, then a PRIMARY KEY
\* clause exactly when a column is a primary key; the object CUSTOMERS alone
\* gives the text of the example, which parses back to its two columns
C12_ColumnLines ==
  /\ pc = "generated" =>
       \A k \in 1..Len(graph) :
         /\ EndsWith(OutputStatements(ddlOut)[k], "\n)")
         /\ LinesOfCreate(OutputStatements(ddlOut)[k]) = ExpectedLines(graph[k])
  /\ (pc = "generated" /\ Len(graph) = 1 /\ graph[1].label = "CUSTOMERS") =>
       ddlOut = CustomersText
  /\ (RoundTrip /\ Len(graph) = 1 /\ graph[1].label = "CUSTOMERS") =>
       /\ Len(nodes) = 1
       /\ nodes[1].label = "CUSTOMERS"
       /\ Len(nodes[1].columns) = 2
       /\ \A c \in 1..2 : SameColumn(graph[1].columns[c], nodes[1].columns[c])

\* the text of CUSTOMERS alone was generated and parsed back
C12_Witness ==
  /\ RoundTrip
  /\ Len(graph) = 1
  /\ graph[1].label = "CUSTOMERS"
  /\ Len(nodes) = 1
  /\ nodes[1].columns[1].isPrimaryKey
  /\ ~nodes[1].columns[1].isNullable
  /\ nodes[1].columns[2].isNullable

\* the reserved words of the claim: the keywords and every kind of object
ClaimedReservedWord(name) ==
  ToLowerCase(name) \in reservedWords \cup {ToLowerCase(k) : k \in Kinds}

\* the formatted name the claim describes
ClaimedFormat(name) ==
  IF HasNonWordChar(name) \/ ClaimedReservedWord(name)
  THEN "\"" \o name \o "\""
  ELSE ToUpperCase(name)

\* C13: every object name and column name is written inside double quotes
\* with its case kept exactly when it holds a character outside
\* [A-Za-z0-9_] or is, ignoring case, a keyword or one of the five kinds of
\* object, and is written upper-cased without quotes otherwise
C13_IdentifierFormatter ==
  pc = "generated" =>
    \A k \in 1..Len(graph) :
      /\ StartsWith(OutputStatements(ddlOut)[k],
                    "CREATE OR REPLACE TABLE " \o ClaimedFormat(graph[k].label)
                      \o " (\n")
      /\ \A c \in 1..Len(graph[k].columns) :
           StartsWith(LinesOfCreate(OutputStatements(ddlOut)[k])[c],
                      "  " \o ClaimedFormat(graph[k].columns[c].name) \o " ")

\* C14: the CREATE statement of every object starts with CREATE OR REPLACE,
\* the kind of the object and its formatted name, so the statements of two
\* objects that differ only in kind differ
C14_KindInHeader ==
  pc = "generated" =>
    /\ \A k \in 1..Len(graph) :
         StartsWith(OutputStatements(ddlOut)[k],
                    "CREATE OR REPLACE " \o graph[k].tableType \o " "
                      \o formatIdentifier(graph[k].label) \o " (\n")
    /\ \A j, k \in 1..Len(graph) :
         graph[j].tableType # graph[k].tableType =>
           OutputStatements(ddlOut)[j] # OutputStatements(ddlOut)[k]

\* a model of the manifest has this name
DeclaredModel(name) ==
  \E d \in 1..Len(documents) : \E m \in 1..Len(documents[d].models) :
    documents[d].models[m].name = name

\* a source of the manifest has this name and a table of this name
DeclaredTable(sourceName, tableName) ==
  \E d \in 1..Len(documents) : \E s \in 1..Len(documents[d].sources) :
    /\ documents[d].sources[s].name = sourceName
    /\ \E t \in 1..Len(documents[d].sources[s].tables) :
         documents[d].sources[s].tables[t].name = tableName

\* the label of the declared object that a ref(...) or source(...) names,
\* "" when it names none
TargetOfMatches(refMatch, sourceMatch) ==
  IF refMatch.ok /\ DeclaredModel(Group(refMatch, 1)) THEN Group(refMatch, 1)
  ELSE IF sourceMatch.ok
            /\ DeclaredTable(Group(sourceMatch, 1), Group(sourceMatch, 2))
  THEN Group(sourceMatch, 1) \o "." \o Group(sourceMatch, 2)
  ELSE ""

DeclaredTarget(to) ==
  TargetOfMatches(Exec(to, refRegex, FALSE), Exec(to, sourceRegex, FALSE))

\* a relationship of the result joins the objects with these labels
Related(fromLabel, toLabel) ==
  \E e \in 1..Len(edges) : \E j, k \in 1..Len(nodes) :
    /\ nodes[j].label = fromLabel
    /\ nodes[k].label = toLabel
    /\ edges[e].source = nodes[j].id
    /\ edges[e].target = nodes[k].id

\* the column named name of the object labelled label points at target.field
ColumnPointsAt(label, name, target, field) ==
  \E k \in 1..Len(nodes) : \E c \in 1..Len(nodes[k].columns) :
    /\ nodes[k].label = label
    /\ nodes[k].columns[c].name = name
    /\ nodes[k].columns[c].isForeignKey
    /\ nodes[k].columns[c].referencedTable = target
    /\ nodes[k].columns[c].referencedColumn = field

\* what the claim asks of one test of one column of one model
RelationshipTestHonoured(model, column, test) ==
  (test.type = "object" /\ test.key = "relationships" /\ test.field # ""
     /\ DeclaredTarget(test.to) # "") =>
    /\ Related(model.name, DeclaredTarget(test.to))
    /\ ColumnPointsAt(model.name, column.name, DeclaredTarget(test.to), test.field)

\* C15: a relationships test of a model column whose target is a declared
\* model, given as ref('m'), or a declared table of a source, given as
\* source('s','t'), and whose field is set, yields a relationship from the
\* model to the target and the column flagged and pointed at the target
C15_RelationshipsTest ==
  pc = "yamlDone" =>
    \A d \in 1..Len(documents) : \A m \in 1..Len(documents[d].models) :
      \A c \in 1..Len(documents[d].models[m].columns) :
        \A t \in 1..Len(documents[d].models[m].columns[c].tests) :
          RelationshipTestHonoured(documents[d].models[m],
                                   documents[d].models[m].columns[c],
                                   documents[d].models[m].columns[c].tests[t])

\* the labels of the declared objects that the matches of a body name
DeclaredAmong(refMatches, sourceMatches) ==
  {n \in {Group(refMatches[r], 1) : r \in 1..Len(refMatches)} :
     DeclaredModel(n)}
    \cup {Group(sourceMatches[r], 1) \o "." \o Group(sourceMatches[r], 2) :
            r \in {q \in 1..Len(sourceMatches) :
                     DeclaredTable(Group(sourceMatches[q], 1),
                                   Group(sourceMatches[q], 2))}}

ReferencedObjects(sql) ==
  DeclaredAmong(ExecAll(sql, 1, refRegex, FALSE),
                ExecAll(sql, 1, sourceRegex, FALSE))

\* the relationships of the result from object j to object k
EdgesBetween(j, k) ==
  {e \in 1..Len(edges) :
     edges[e].source = nodes[j].id /\ edges[e].target = nodes[k].id}

\* the model reaches the result by its SQL body alone: no relationships
\* test on its columns, no schema-level tests in the manifest
OnlySqlReferences(model) ==
  /\ model.raw_sql # ""
  /\ \A c \in 1..Len(model.columns) :
       ~HasTest(model.columns[c].tests, {"relationships"})
  /\ \A d \in 1..Len(documents) : documents[d].tests = <<>>

\* what the claim asks of the object j that such a model became
SqlScanHonoured(model, j) ==
  /\ \A k \in 1..Len(nodes) :
       Cardinality(EdgesBetween(j, k)) =
         IF nodes[k].label \in ReferencedObjects(model.raw_sql) THEN 1 ELSE 0
  /\ \A c \in 1..Len(nodes[j].columns) :
       /\ nodes[j].columns[c].referencedTable = ""
       /\ nodes[j].columns[c].referencedColumn = ""

\* C16: a model that refers to other objects in its SQL body only gets
\* exactly one relationship to each distinct declared object its body names
\* by ref(...) or source(...,...), none to any other object, and no
\* referenced table or column on its columns
C16_SqlScan ==
  pc = "yamlDone" =>
    \A d \in 1..Len(documents) : \A m \in 1..Len(documents[d].models) :
      OnlySqlReferences(documents[d].models[m]) =>
        \A j \in 1..Len(nodes) :
          nodes[j].label = documents[d].models[m].name =>
            SqlScanHonoured(documents[d].models[m], j)

\* the last part of a qualified name, folded to upper case
ShortNameOfLabel(label) == ToUpperCase(LastPart(label))

\* a parse call has returned
Returned == pc \in {"done", "yamlDone"}

\* C17: in the graph a parse call returns no two objects have short names
\* that are equal ignoring case
C17_ShortNamesUnique ==
  Returned =>
    \A j, k \in 1..Len(nodes) :
      ShortNameOfLabel(nodes[j].label) = ShortNameOfLabel(nodes[k].label)
        => j = k

HasObjectWithId(id) == \E k \in 1..Len(nodes) : nodes[k].id = id

\* C18: in the graph a parse call returns, the source and the target of
\* every relationship are ids of objects of that graph
C18_RelationshipEndpoints ==
  Returned =>
    \A e \in 1..Len(edges) :
      HasObjectWithId(edges[e].source) /\ HasObjectWithId(edges[e].target)

\* a text with two foreign-key statements came back with two relationships
C18_Witness ==
  /\ pc = "done"
  /\ origin.kind = "chain"
  /\ Len(edges) = 2
  /\ edges[1].source # edges[2].source

\* the second call of parse() on one parser object has returned
SecondReturned == pc \in {"done", "yamlDone"} /\ calls = 2

\* r holds the objects and relationships of q, each at its place, whatever
\* their ids
SameGraph(r, q) ==
  /\ Len(r.nodes) = Len(q.nodes)
  /\ Len(r.edges) = Len(q.edges)
  /\ \A k \in 1..Len(q.nodes) :
       /\ r.nodes[k].label = q.nodes[k].label
       /\ SameObject(r.nodes[k], q.nodes[k])

\* C19: when parse() is called a second time on the same DDLParser or
\* YAMLParser, the graph it returns has the objects and relationships the
\* first call returned (whatever their ids), and the graph the first call
\* returned, which is the parser's own nodes and edges, is what it was when
\* it was returned
C19_PerCallState ==
  SecondReturned =>
    /\ SameGraph([nodes |-> nodes, edges |-> edges], firstResult)
    /\ nodes = firstResult.nodes
    /\ edges = firstResult.edges

\* ALTER TABLE <name> ADD [CONSTRAINT <n>] FOREIGN KEY (...) REFERENCES
\* <name> (...), its tokens separated by whitespace of any kind
ForeignKeyStatementForm ==
  <<Lit("ALTER"), Rep("s", 1), Lit("TABLE"), Rep("s", 1), TableRef, Rep("s", 1),
    Lit("ADD"), Rep("s", 1),
    Opt(<<Lit("CONSTRAINT"), Rep("s", 1), Rep("w", 1), Rep("s", 1)>>),
    Lit("FOREIGN"), Rep("s", 1), Lit("KEY"), Rep("s", 0),
    Lit("("), Rep("^rp", 1), Lit(")"), Rep("s", 1),
    Lit("REFERENCES"), Rep("s", 1), TableRef, Rep("s", 0),
    Lit("("), Rep("^rp", 1), Lit(")")>>

\* the second pass of parse is at a statement of that form
AtForeignKeyStatement ==
  /\ pc = "pass2"
  /\ idx <= Len(statements)
  /\ Test(statements[idx], ForeignKeyStatementForm, TRUE)

\* C20: every statement ALTER TABLE <name> ADD [CONSTRAINT <n>] FOREIGN KEY
\* (...) REFERENCES ... that the second pass of parse meets is classified as
\* a foreign-key statement, and so handed to the resolution of its
\* references, whatever whitespace separates its tokens, the line breaks
\* that generate writes between the table name and ADD included
C20_ForeignKeyClassification ==
  AtForeignKeyStatement => isAlterTableAddForeignKey(statements[idx])

\* a new DDLParser has parsed and returned the graph of a pasted text of
\* the given kind
Parsed(kind) == pc = "done" /\ FirstCall /\ origin.kind = kind

\* C21: when the text holds, as a statement of its own, ALTER TABLE T MODIFY
\* COLUMN C SET TAG 'x' = 'true', the column C of the object T that parse
\* returns has x among its tags
C21_ColumnTags ==
  Parsed("columnTag") =>
    \E k \in 1..Len(nodes) :
      /\ nodes[k].label = "T"
      /\ \E c \in 1..Len(nodes[k].columns) :
           /\ nodes[k].columns[c].name = origin.a
           /\ InSeq(origin.b, nodes[k].columns[c].tags)

\* the columns a "composite" text lists, 1..n
ListedKeys == 1..Len(Split(origin.b, ","))

\* identifiers name the same column when they agree without case, which is
\* how parseForeignKeyConstraint looks the source columns up
SameName(x, y) == ToUpperCase(x) = ToUpperCase(y)

ObjectWithId(id) == nodes[MinPos({k \in 1..Len(nodes) : nodes[k].id = id})]

\* C23: once parse has resolved a foreign key, the referencedTable of the
\* source column is the short name of the target object, the last part of
\* the name it was created with, be that name of one, two or three parts
C23_ReferencedTableShortName ==
  (Parsed("qualified") /\ Len(edges) = 1) =>
    \A c \in 1..Len(ObjectWithId(edges[1].source).columns) :
      ObjectWithId(edges[1].source).columns[c].isForeignKey =>
        ObjectWithId(edges[1].source).columns[c].referencedTable
          = LastPart(ObjectWithId(edges[1].target).label)

\* the object k of the graph was parsed back with all its column lines
ParsedBack(k) ==
  /\ RoundTrip
  /\ k <= Len(graph)
  /\ Len(nodes) = Len(graph)
  /\ Len(nodes[k].columns) = Len(graph[k].columns)

\* C24: the data type parsed from a column line is the token that follows
\* the column name, with its parameter list in parentheses when it has one,
\* also for a quoted column name that holds spaces: each column line that
\* generate wrote as name, data type gives back that data type
C24_ColumnDataType ==
  \A k \in 1..MaxNodes :
    ParsedBack(k) =>
      \A c \in 1..Len(graph[k].columns) :
        nodes[k].columns[c].dataType = graph[k].columns[c].dataType

\* C25: a column comment COMMENT '...' or an object comment COMMENT = '...'
\* whose literal doubles every single quote of a text is parsed back to
\* that whole text, each doubled quote one quote again, however many
\* single quotes the text holds
C25_CommentUnescaping ==
  Parsed("comment") =>
    /\ Len(nodes) = 1
    /\ Len(nodes[1].columns) = 1
    /\ origin.b = "column" => nodes[1].columns[1].comment = origin.a
    /\ origin.b = "table" => nodes[1].comment = origin.a

\* C26: a statement that is neither a CREATE [OR REPLACE] <KIND> statement
\* nor an ALTER TABLE ... ADD [CONSTRAINT ...] FOREIGN KEY statement adds no
\* object and no relationship, whatever its literals, comments and clauses
\* hold, and the objects of the other statements are what they are without
\* it: A with ID and B_ID, B with ID, no foreign-key flag
C26_OtherStatementsIgnored ==
  Parsed("other") =>
    /\ edges = <<>>
    /\ Len(nodes) = 2
    /\ nodes[1].label = "A"
    /\ nodes[2].label = "B"
    /\ Len(nodes[1].columns) = 2
    /\ Len(nodes[2].columns) = 1
    /\ NoForeignKeyFlag(nodes[1])
    /\ NoForeignKeyFlag(nodes[2])

\* the columns the claim lets write a foreign-key statement, in object
\* order, then column order
PopulatedKey(col) ==
  col.isForeignKey = TRUE /\ Len(col.referencedTable) > 0
    /\ Len(col.referencedColumn) > 0

RECURSIVE PopulatedKeys(_)
PopulatedKeys(g) ==
  IF g = <<>> THEN <<>>
  ELSE LET Key(col) == [table |-> Head(g).label, column |-> col.name,
                        referencedTable |-> col.referencedTable,
                        referencedColumn |-> col.referencedColumn]
       IN SeqMap(Key, SelectIdx(Head(g).columns, PopulatedKey))
            \o PopulatedKeys(Tail(g))

IsAlterStatement(stmt) == StartsWith(stmt, "ALTER TABLE ")

\* C27: the text generate returns is the same for every list of
\* relationships handed in with the objects, and its foreign-key statements
\* are exactly those of the columns that have isForeignKey set and both
\* reference fields populated
C27_RelationshipsIgnored ==
  pc = "generated" =>
    LET out == OutputStatements(ddlOut)
        keys == PopulatedKeys(graph)
        alters == SelectIdx(out, IsAlterStatement)
    IN /\ \A r \in RelationshipLists : generateSnowflakeDDL(graph, r) = ddlOut
       /\ Len(alters) = Len(keys)
       /\ \A j \in 1..Len(keys) :
            /\ j <= Len(alters)
            /\ IsForeignKeyOf(alters[j], keys[j])
            /\ Includes(alters[j],
                 "REFERENCES " \o formatIdentifier(keys[j].referencedTable)
                   \o " (" \o formatIdentifier(keys[j].referencedColumn)
                   \o ")")

\* a text generated with relationships handed in, from an object whose
\* column is flagged but has no referenced column
C27_Witness ==
  /\ pc = "generated"
  /\ Len(relationships) = 2
  /\ \E k \in 1..Len(graph[1].columns) : LET col == graph[1].columns[k] IN
       col.isForeignKey /\ col.referencedTable # "" /\ col.referencedColumn = ""

\* a text generated with relationships handed in, from objects with a
\* populated foreign key
C27_WitnessPopulated ==
  /\ pc = "generated"
  /\ relationships # <<>>
  /\ PopulatedKeys(graph) # <<>>

\* the relationships of the result by the names of their two objects, and
\* the foreign-key fields of every column
RelationshipsByName ==
  {<<ObjectWithId(edges[e].source).label, ObjectWithId(edges[e].target).label,
     edges[e].relationshipType>> : e \in 1..Len(edges)}

ForeignKeyFields ==
  UNION {{<<nodes[k].label, nodes[k].columns[c].name,
            nodes[k].columns[c].isForeignKey,
            nodes[k].columns[c].referencedTable,
            nodes[k].columns[c].referencedColumn>>
            : c \in 1..Len(nodes[k].columns)} : k \in 1..Len(nodes)}

\* a manifest of ModelOrders has been parsed
ParsedModels ==
  pc = "yamlDone" /\ FirstCall /\ yaml.loadAll = "ok" /\ yaml.docs \in ModelOrders

\* C28: whatever the place of the foreign-key statement among the CREATE
\* statements of its two tables, parse returns the one relationship from A
\* to B and the one flagged column A.B_ID; whatever the order of the models
\* orders and customers, in one document or two, the manifest parser
\* returns the same relationships from orders to customers and the same
\* foreign-key fields
C28_OrderIndependence ==
  /\ Parsed("order") =>
       /\ Len(edges) = 1
       /\ RelationshipsByName = {<<"A", "B", "one-to-many">>}
       /\ ForeignKeyFields =
            {<<"A", "ID", FALSE, "", "">>, <<"A", "B_ID", TRUE, "B", "ID">>,
             <<"B", "ID", FALSE, "", "">>}
  /\ ParsedModels =>
       /\ Len(edges) = 3
       /\ RelationshipsByName = {<<"orders", "customers", "one-to-many">>}
       /\ \A f \in ForeignKeyFields :
            f[2] = "customer_id" => f = <<"orders", "customer_id", TRUE, "customers", "id">>
       /\ {<<f[1], f[2], f[3]>> : f \in ForeignKeyFields} =
            {<<"orders", "id", FALSE>>, <<"orders", "customer_id", TRUE>>,
             <<"orders", "store_id", TRUE>>, <<"orders", "region_id", TRUE>>,
             <<"orders", "note", FALSE>>, <<"customers", "id", FALSE>>,
             <<"customers", "name", FALSE>>}

\* the foreign-key statement came first and was resolved
C28_Witness ==
  /\ Parsed("order")
  /\ origin.a = "F,B,A"
  /\ Len(edges) = 1

\* orders was declared a document before customers and its test resolved
C28_WitnessManifest ==
  /\ ParsedModels
  /\ Len(yaml.docs) = 2
  /\ yaml.docs[1].models[1].name = "orders"
  /\ Len(edges) > 0

\* a column of the source object stands behind the relationship
BackedByColumn(e) ==
  LET S == ObjectWithId(e.source)
      T == ObjectWithId(e.target)
  IN \E c \in 1..Len(S.columns) :
       /\ S.columns[c].isForeignKey
       /\ S.columns[c].referencedTable \in {T.label, LastPart(T.label)}

\* C29: in every result of parse each relationship from S to T has a column
\* of S that is a foreign key and whose referencedTable names T, and a
\* foreign-key statement that lists a source column S does not have yields
\* no relationship
C29_RelationshipBackedByColumn ==
  /\ (pc = "done" /\ FirstCall /\ origin.kind # "generated") =>
       \A e \in 1..Len(edges) :
         (HasObjectWithId(edges[e].source) /\ HasObjectWithId(edges[e].target))
           => BackedByColumn(edges[e])
  /\ (Parsed("sourceColumn") /\ origin.b = "absent") => edges = <<>>

\* the name belongs to an object of the result
NamesObject(name) ==
  \E k \in 1..Len(nodes) : name \in {nodes[k].label, LastPart(nodes[k].label)}

\* a flagged column has both reference fields, and its referencedTable is
\* an object of the result
FlagHasReference(col) ==
  col.isForeignKey =>
    /\ col.referencedTable # ""
    /\ col.referencedColumn # ""
    /\ NamesObject(col.referencedTable)

\* C30: in every result of the DDL parser and of the manifest parser a
\* column is flagged as foreign key only if referencedTable and
\* referencedColumn are populated and referencedTable names an object of
\* that result
C30_FlagImpliesReference ==
  ((pc \in {"done", "yamlDone"}) /\ FirstCall) =>
    \A k \in 1..Len(nodes) : \A c \in 1..Len(nodes[k].columns) :
      FlagHasReference(nodes[k].columns[c])

====
